---------------------------- MODULE Spec2Model ----------------------------
(***************************************************************************)
(* A model of the ruGameboy emulation core: the picture unit's scanline    *)
(* state machine (gpu.rs), the timer (timer.rs), the bus (bus.rs,          *)
(* memory.rs) and the CPU's step with its interrupt pass (cpu.rs,          *)
(* instruction.rs).                                                        *)
(***************************************************************************)
EXTENDS Integers, Sequences, FiniteSets, TLC

VARIABLES
    cpu,      \* Cpu: regs, sp, pc, interrupt_state
    bus,      \* Bus: gpu, timer, joypad, interruptenb and the storage regions
    build,    \* "debug" (integer overflow panics) or "release" (it wraps)
    halted,   \* "run", "err" (step returned Err) or "panic"
    obs,      \* what the last step did (history)
    frame     \* what the picture unit did since it last closed a frame (history)

vars == <<cpu, bus, build, halted, obs, frame>>

-----------------------------------------------------------------------------
(* Bytes, words and bits *)

Byte == 0..255

Bit(v, n) == (v \div (2 ^ n)) % 2

W8(x) == (x + 256) % 256

\* A bitwise operation on two bytes, from the operation on one bit.
BitOp(F(_, _), a, b) ==
    F(Bit(a, 0), Bit(b, 0)) + 2 * F(Bit(a, 1), Bit(b, 1))
    + 4 * F(Bit(a, 2), Bit(b, 2)) + 8 * F(Bit(a, 3), Bit(b, 3))
    + 16 * F(Bit(a, 4), Bit(b, 4)) + 32 * F(Bit(a, 5), Bit(b, 5))
    + 64 * F(Bit(a, 6), Bit(b, 6)) + 128 * F(Bit(a, 7), Bit(b, 7))

And8(a, b) == BitOp(LAMBDA x, y : x * y, a, b)
Or8(a, b) == BitOp(LAMBDA x, y : x + y - x * y, a, b)
Xor8(a, b) == BitOp(LAMBDA x, y : (x + y) % 2, a, b)

W16(x) == (x + 65536) % 65536

Ovf16(x) == x < 0 \/ x > 65535

\* A zero-filled byte array kept as the function of its non-zero cells.
Empty == [x \in {} |-> 0]

Get(f, a) == IF a \in DOMAIN f THEN f[a] ELSE 0

Put(f, a, v) ==
    IF v = 0 THEN [x \in (DOMAIN f) \ {a} |-> f[x]]
    ELSE [x \in (DOMAIN f) \cup {a} |-> IF x = a THEN v ELSE f[x]]

\* Memory::new(base, size, binary): the vector, then zeros up to size (Get
\* answers 0 for the cells the vector does not reach). Len(binary) <= size.
Memory_new(base, size, binary) ==
    [a \in base..(base + Len(binary) - 1) |-> binary[a - base + 1]]

\* Memory::load: permission Invalid answers 0, the others the cell.
Memory_load(m, perm, addr) == IF perm = "Invalid" THEN 0 ELSE Get(m, addr)

\* A mutant of Memory_store: the permission is not looked at.
Memory_store_any(m, perm, addr, value) == Put(m, addr, value)

\* Memory::store: only permission Normal writes the cell; ReadOnly and
\* Invalid answer Ok and leave the memory as it is.
Memory_store(m, perm, addr, value) ==
    IF perm = "Normal" THEN Put(m, addr, value) ELSE m

\* With(v, F) is F(v), the value v worked out once.
With(v, F(_)) == CHOOSE y \in {F(x) : x \in {v}} : TRUE

-----------------------------------------------------------------------------
(* gpu.rs: the picture unit *)

VRAM_START == 32768
VRAM_END == 40959
OAM_START == 65024
OAM_END == 65183

GpuMode == {"ScanlineOAM", "ScanlineVRAM", "HBlank", "VBlank"}

\* Gpu::new. raised is history: whether the last update executed the
\* assignment is_interrupt = true.
Gpu_new ==
    [clock |-> 0, line |-> 0, mode |-> "ScanlineOAM", is_interrupt |-> FALSE,
     lcdc |-> 145, bg_palette |-> 252, ob0_palette |-> 255, ob1_palette |-> 255,
     scy |-> 0, scx |-> 0, vram |-> Empty, oam |-> Empty, sprite |-> Empty,
     raised |-> FALSE]

\* Sprite's Default: the 40 records Gpu::new fills the cache with.
Sprite_default ==
    [tile_idx |-> 0, x |-> 0, y |-> 0, priority |-> FALSE, flip_y |-> FALSE,
     flip_x |-> FALSE, palette_number |-> FALSE]

\* The cache is kept as the function of the records that differ from the
\* default.
Sprite_at(g, idx) == IF idx \in DOMAIN g.sprite THEN g.sprite[idx] ELSE Sprite_default

Sprite_put(f, idx, s) ==
    IF s = Sprite_default THEN [x \in (DOMAIN f) \ {idx} |-> f[x]]
    ELSE [x \in (DOMAIN f) \cup {idx} |-> IF x = idx THEN s ELSE f[x]]

\* A mutant of Gpu_update_sprite: the positions are kept as stored.
Gpu_update_sprite_raw(g, addr) ==
    LET value == Get(g.oam, addr)
        s == Sprite_at(g, addr \div 4)
    IN  [g EXCEPT !.sprite = Sprite_put(g.sprite, addr \div 4,
           CASE addr % 4 = 0 -> [s EXCEPT !.y = value]
             [] addr % 4 = 1 -> [s EXCEPT !.x = value]
             [] addr % 4 = 2 -> [s EXCEPT !.tile_idx = value]
             [] addr % 4 = 3 ->
                  [s EXCEPT !.priority = ((value \div 128) % 2 # 0),
                            !.flip_y = ((value \div 64) % 2 # 0),
                            !.flip_x = ((value \div 32) % 2 # 0),
                            !.palette_number = ((value \div 16) % 2 # 0)])]

\* Gpu::update_sprite(addr), addr the offset in the OAM: the field addr & 3 of
\* the record addr / 4 is decoded from the byte just written.
Gpu_update_sprite(g, addr) ==
    LET value == Get(g.oam, addr)
        s == Sprite_at(g, addr \div 4)
    IN  [g EXCEPT !.sprite = Sprite_put(g.sprite, addr \div 4,
           CASE addr % 4 = 0 -> [s EXCEPT !.y = value - 16]
             [] addr % 4 = 1 -> [s EXCEPT !.x = value - 8]
             [] addr % 4 = 2 -> [s EXCEPT !.tile_idx = value]
             [] addr % 4 = 3 ->
                  [s EXCEPT !.priority = ((value \div 128) % 2 # 0),
                            !.flip_y = ((value \div 64) % 2 # 0),
                            !.flip_x = ((value \div 32) % 2 # 0),
                            !.palette_number = ((value \div 16) % 2 # 0)])]

\* Gpu::store's OAM arm, addr the offset in the OAM: the cell, then the cache.
Gpu_store_oam(g, addr, value) ==
    Gpu_update_sprite([g EXCEPT !.oam = Put(g.oam, addr, value)], addr)

\* The cache after the stores to the OAM offsets 0..159 of a copy, the cells
\* being in place already: update_sprite ran for each of the four bytes of
\* each record.
Gpu_update_sprites(g) ==
    LET Rec(idx) ==
          Sprite_at(Gpu_update_sprite(Gpu_update_sprite(Gpu_update_sprite(
                      Gpu_update_sprite(g, 4 * idx), (4 * idx) + 1),
                      (4 * idx) + 2), (4 * idx) + 3), idx)
    IN  [g EXCEPT !.sprite = [idx \in {j \in 0..39 : Rec(j) # Sprite_default}
                                |-> Rec(idx)]]

\* The screen: WIDTH x HEIGHT pixels (crate::WIDTH, crate::HEIGHT; their file
\* is not under src/, the values are the specification's 160 x 144).
WIDTH == 160
HEIGHT == 144

\* Gpu::build_background, one cell of the double loop: the index into vram the
\* tile number is read at. The scroll registers are added as they are.
Gpu_tile_addr(g, row, col) ==
    (IF Bit(g.lcdc, 3) = 1 THEN 7168 ELSE 6144)
    + (((row + (g.scy % 256)) \div 8) * 32) + (col + g.scx)

\* Gpu::get_tile_line: the index of the first of the two bytes of the line.
Gpu_tile_line_addr(tile_idx, line_idx) == ((tile_idx * 8) + line_idx) * 2

\* Gpu::build_background. The cells are visited row by row; an index past the
\* end of vram panics (in every build), and the cells after it are not visited.
\* reads: the index of the map entry of each cell visited; lines: the index
\* get_tile_line computed for it; writes: where its 8 pixels start.
Gpu_build_background(g) ==
    LET Cells == (0..(HEIGHT - 1)) \X (0..((WIDTH \div 8) - 1))
        Order(c) == (c[1] * (WIDTH \div 8)) + c[2]
        Bad == {c \in Cells : Gpu_tile_addr(g, c[1], c[2]) > VRAM_END - VRAM_START}
        first == IF Bad = {} THEN HEIGHT * WIDTH
                 ELSE CHOOSE n \in {Order(c) : c \in Bad} :
                        \A c \in Bad : n <= Order(c)
        Seen == {c \in Cells : Order(c) <= first}
        Read == {c \in Cells : Order(c) < first}
    IN  [panic |-> Bad # {},
         reads |-> [c \in Seen |-> Gpu_tile_addr(g, c[1], c[2])],
         lines |-> [c \in Read |->
                      Gpu_tile_line_addr(Get(g.vram, Gpu_tile_addr(g, c[1], c[2])),
                                         (c[1] + (g.scy % 256)) % 8)],
         writes |-> [c \in Read |-> (c[1] * WIDTH) + (c[2] * 8)]]

\* Gpu::build_screen, the background: built when LCDC bit 0 is set.
Gpu_build_screen(g) ==
    IF Bit(g.lcdc, 0) = 1 THEN Gpu_build_background(g)
    ELSE [panic |-> FALSE, reads |-> <<>>, lines |-> <<>>, writes |-> <<>>]

\* A mutant of Gpu_vblank_arm: the frame is closed two lines late.
Gpu_vblank_arm_late(g, c) ==
    IF g.line + 1 >= 155
    THEN [g EXCEPT !.clock = c - 456, !.line = 0, !.mode = "ScanlineOAM"]
    ELSE [g EXCEPT !.clock = c - 456, !.line = g.line + 1]

\* A mutant of Gpu_oam_arm: the OAM search is left for HBlank directly.
Gpu_oam_arm_skip(g, c) ==
    [g EXCEPT !.clock = c - 80, !.mode = "HBlank"]

\* A mutant of Gpu_hblank_arm: VBlank is entered, and the flag raised, one
\* line early.
Gpu_hblank_arm_early(g, c) ==
    IF g.line >= 142
    THEN [g EXCEPT !.clock = c - 204, !.mode = "VBlank",
                   !.is_interrupt = TRUE, !.raised = TRUE, !.line = g.line + 1]
    ELSE [g EXCEPT !.clock = c - 204, !.mode = "ScanlineOAM",
                   !.line = g.line + 1]

\* Gpu::update, arm ScanlineOAM (c is the accumulator after the addition).
Gpu_oam_arm(g, c) ==
    [g EXCEPT !.clock = c - 80, !.mode = "ScanlineVRAM"]

\* Gpu::update, arm ScanlineVRAM.
Gpu_vram_arm(g, c) ==
    [g EXCEPT !.clock = c - 172, !.mode = "HBlank"]

\* Gpu::update, arm HBlank.
Gpu_hblank_arm(g, c) ==
    IF g.line >= 143
    THEN [g EXCEPT !.clock = c - 204, !.mode = "VBlank",
                   !.is_interrupt = TRUE, !.raised = TRUE, !.line = g.line + 1]
    ELSE [g EXCEPT !.clock = c - 204, !.mode = "ScanlineOAM",
                   !.line = g.line + 1]

\* Gpu::update, arm VBlank.
Gpu_vblank_arm(g, c) ==
    IF g.line + 1 >= 153
    THEN [g EXCEPT !.clock = c - 456, !.line = 0, !.mode = "ScanlineOAM"]
    ELSE [g EXCEPT !.clock = c - 456, !.line = g.line + 1]

\* Gpu::update: one accumulation and at most one mode switch per call.
Gpu_update(g, clock) ==
    LET c == g.clock + clock   \* u64 wrapping_add: 2^64 is out of reach
        g0 == [g EXCEPT !.clock = c, !.raised = FALSE]
    IN  CASE g.mode = "ScanlineOAM" /\ c >= 80 -> Gpu_oam_arm(g0, c)
          [] g.mode = "ScanlineVRAM" /\ c >= 172 -> Gpu_vram_arm(g0, c)
          [] g.mode = "HBlank" /\ c >= 204 -> Gpu_hblank_arm(g0, c)
          [] g.mode = "VBlank" /\ c >= 456 -> Gpu_vblank_arm(g0, c)
          [] OTHER -> g0

-----------------------------------------------------------------------------
(* timer.rs *)

TIMER_START == 65284
TIMER_END == 65287

\* Timer::new (Default): every field zero or false, scale X1.
Timer_new ==
    [div |-> 0, tima |-> 0, tma |-> 0, scale |-> "X1", running |-> FALSE,
     div_counter |-> 0, timer_counter |-> 0, roundvalue |-> 0,
     is_interrupt |-> FALSE]

\* A mutant of Timer_update_div: the divider accumulator restarts from 0 when
\* DIV is incremented.
Timer_update_div_restart(t, clock) ==
    IF t.div_counter + clock >= 256
    THEN [t EXCEPT !.div_counter = 0, !.div = W8(t.div + 1)]
    ELSE [t EXCEPT !.div_counter = t.div_counter + clock]

\* Timer::update, the divider (u64 additions: 2^64 is out of reach).
Timer_update_div(t, clock) ==
    IF t.div_counter + clock >= 256
    THEN [t EXCEPT !.div_counter = t.div_counter + clock - 256,
                   !.div = W8(t.div + 1)]
    ELSE [t EXCEPT !.div_counter = t.div_counter + clock]

\* Timer::update, the counter behind TAC.
Timer_update_tac(t, clock) ==
    IF ~t.running THEN t
    ELSE IF t.timer_counter + clock >= t.roundvalue
    THEN [t EXCEPT !.timer_counter = t.timer_counter + clock - t.roundvalue,
                   !.tma = IF t.tma = 255 THEN t.tima ELSE W8(t.tma + 1)]
    ELSE [t EXCEPT !.timer_counter = t.timer_counter + clock]

\* Timer::update.
Timer_update(t, clock) == Timer_update_tac(Timer_update_div(t, clock), clock)

\* Timer::load, 0xFF04..0xFF07.
Timer_load(t, addr) ==
    CASE addr = 65284 -> t.div
      [] addr = 65285 -> t.tima
      [] addr = 65286 -> t.tma
      [] addr = 65287 ->
           (IF t.running THEN 4 ELSE 0) +
           (CASE t.scale = "X1" -> 0 [] t.scale = "X4" -> 3
              [] t.scale = "X16" -> 2 [] t.scale = "X64" -> 1)

\* Timer::store, 0xFF04..0xFF07.
Timer_store(t, addr, value) ==
    CASE addr = 65284 -> [t EXCEPT !.div = 0]
      [] addr = 65285 -> [t EXCEPT !.tima = value]
      [] addr = 65286 -> [t EXCEPT !.tma = value]
      [] addr = 65287 ->
           LET sc == CASE value % 4 = 0 -> "X1" [] value % 4 = 1 -> "X64"
                       [] value % 4 = 2 -> "X16" [] value % 4 = 3 -> "X4"
               rv == CASE sc = "X1" -> 1024 [] sc = "X4" -> 256
                       [] sc = "X16" -> 64 [] sc = "X64" -> 16
           IN  [t EXCEPT !.running = (Bit(value, 2) = 1), !.scale = sc,
                         !.roundvalue = rv, !.timer_counter = 0]

-----------------------------------------------------------------------------
(* joypad.rs *)

JOYPAD_ADDR == 65280

\* Joypad::new.
Joypad_new == [p14 |-> 15, p15 |-> 15, mask |-> 48]

\* Joypad::load.
Joypad_load(j) ==
    CASE j.mask = 32 -> j.p14
      [] j.mask = 16 -> j.p15
      [] OTHER -> 15

\* Joypad::store.
Joypad_store(j, value) == [j EXCEPT !.mask = value]

\* enum JoypadKey.
JoypadKey == {"RIGHT", "LEFT", "UP", "DOWN", "A", "B", "SELECT", "START"}

\* v & !m and v | m for a mask m of one bit.
AndNot(v, m) == IF (v \div m) % 2 = 1 THEN v - m ELSE v
Or(v, m) == IF (v \div m) % 2 = 0 THEN v + m ELSE v

\* A mutant of Joypad_presskey: every key clears its bit in p14.
Joypad_presskey_p14(j, key) ==
    CASE key \in {"RIGHT", "A"} -> [j EXCEPT !.p14 = AndNot(j.p14, 1)]
      [] key \in {"LEFT", "B"} -> [j EXCEPT !.p14 = AndNot(j.p14, 2)]
      [] key \in {"UP", "SELECT"} -> [j EXCEPT !.p14 = AndNot(j.p14, 4)]
      [] key \in {"DOWN", "START"} -> [j EXCEPT !.p14 = AndNot(j.p14, 8)]

\* Joypad::presskey.
Joypad_presskey(j, key) ==
    CASE key = "RIGHT" -> [j EXCEPT !.p14 = AndNot(j.p14, 1)]
      [] key = "LEFT" -> [j EXCEPT !.p14 = AndNot(j.p14, 2)]
      [] key = "UP" -> [j EXCEPT !.p14 = AndNot(j.p14, 4)]
      [] key = "DOWN" -> [j EXCEPT !.p14 = AndNot(j.p14, 8)]
      [] key = "A" -> [j EXCEPT !.p15 = AndNot(j.p15, 1)]
      [] key = "B" -> [j EXCEPT !.p15 = AndNot(j.p15, 2)]
      [] key = "SELECT" -> [j EXCEPT !.p15 = AndNot(j.p15, 4)]
      [] key = "START" -> [j EXCEPT !.p15 = AndNot(j.p15, 8)]

\* Joypad::releasekey.
Joypad_releasekey(j, key) ==
    CASE key = "RIGHT" -> [j EXCEPT !.p14 = Or(j.p14, 1)]
      [] key = "LEFT" -> [j EXCEPT !.p14 = Or(j.p14, 2)]
      [] key = "UP" -> [j EXCEPT !.p14 = Or(j.p14, 4)]
      [] key = "DOWN" -> [j EXCEPT !.p14 = Or(j.p14, 8)]
      [] key = "A" -> [j EXCEPT !.p15 = Or(j.p15, 1)]
      [] key = "B" -> [j EXCEPT !.p15 = Or(j.p15, 2)]
      [] key = "SELECT" -> [j EXCEPT !.p15 = Or(j.p15, 4)]
      [] key = "START" -> [j EXCEPT !.p15 = Or(j.p15, 8)]

-----------------------------------------------------------------------------
(* memory.rs and bus.rs *)

CATRIDGE_START == 0
CATRIDGE_END == 32767
RAM_START == 49152
RAM_END == 57343
UNUSABLE_START == 65184
UNUSABLE_END == 65279
HRAM_START == 65408
HRAM_END == 65534
INT == 65295
INTENB == 65535

VBLANK_SHIFT == 0
LCDC_SHIFT == 1
TIMER_SHIFT == 2
SERIAL_SHIFT == 3
JOYPAD_SHIFT == 4

\* The addresses of enum IO (FromPrimitive::from_u16 answers Some for them).
IO_NR == (65296..65300) \cup (65302..65310) \cup (65312..65318)
IO_WAV == 65328..65343
IO_ADDRS ==
    {65281, 65282} \cup IO_NR \cup IO_WAV \cup (65344..65348)
    \cup (65350..65355) \cup {65407}
IO_LCDC == 65344
IO_SCY == 65346
IO_SCX == 65347
IO_LY == 65348
IO_DMA == 65350
IO_BGP == 65351
IO_OBP0 == 65352
IO_OBP1 == 65353

\* impl From<u8> for InterruptFlag.
InterruptFlag_from(byte) ==
    [vblank |-> Bit(byte, VBLANK_SHIFT) # 0, lcdc |-> Bit(byte, LCDC_SHIFT) # 0,
     timer |-> Bit(byte, TIMER_SHIFT) # 0, serial |-> Bit(byte, SERIAL_SHIFT) # 0,
     joypad |-> Bit(byte, JOYPAD_SHIFT) # 0]

\* impl From<&InterruptFlag> for u8.
InterruptFlag_u8(flag) ==
    (IF flag.vblank THEN 2 ^ VBLANK_SHIFT ELSE 0)
    + (IF flag.lcdc THEN 2 ^ LCDC_SHIFT ELSE 0)
    + (IF flag.timer THEN 2 ^ TIMER_SHIFT ELSE 0)
    + (IF flag.serial THEN 2 ^ SERIAL_SHIFT ELSE 0)
    + (IF flag.joypad THEN 2 ^ JOYPAD_SHIFT ELSE 0)

\* Bus::new(binary): catridge is the image (Memory::new pads it with zeros, which
\* Get reads back); the other storage regions are zero-filled.
Bus_new(binary) ==
    [gpu |-> Gpu_new, timer |-> Timer_new, joypad |-> Joypad_new,
     interruptenb |-> InterruptFlag_from(0), catridge |-> binary,
     ram |-> Empty, hram |-> Empty]

\* Bus::load_interrupt.
Bus_load_interrupt(b) ==
    (IF b.gpu.is_interrupt THEN 2 ^ VBLANK_SHIFT ELSE 0)
    + (IF b.timer.is_interrupt THEN 2 ^ TIMER_SHIFT ELSE 0)

\* Bus::store_interrupt: (value >> TIMER_SHIFT) & 0x4 is bit 4 of value.
Bus_store_interrupt(b, value) ==
    [b EXCEPT !.gpu.is_interrupt = (Bit(value, VBLANK_SHIFT) # 0),
              !.timer.is_interrupt = (Bit(value \div (2 ^ TIMER_SHIFT), 2) # 0)]

InRange(addr, lo, hi) == lo <= addr /\ addr <= hi

\* Bus::load (find_storage, find_device, then the interrupt latches and enum
\* IO). Memory::load answers the image byte, 0 in the padding.
Bus_load(b, addr) ==
    CASE InRange(addr, CATRIDGE_START, CATRIDGE_END) ->
           [ok |-> TRUE, v |-> Memory_load(b.catridge, "ReadOnly", addr)]
      [] InRange(addr, RAM_START, RAM_END) ->
           [ok |-> TRUE, v |-> Memory_load(b.ram, "Normal", addr)]
      [] InRange(addr, HRAM_START, HRAM_END) ->
           [ok |-> TRUE, v |-> Memory_load(b.hram, "Normal", addr)]
      [] InRange(addr, UNUSABLE_START, UNUSABLE_END) ->
           [ok |-> TRUE, v |-> Memory_load(Empty, "Invalid", addr)]
      [] InRange(addr, VRAM_START, VRAM_END) ->
           [ok |-> TRUE, v |-> Get(b.gpu.vram, addr - VRAM_START)]
      [] InRange(addr, OAM_START, OAM_END) ->
           [ok |-> TRUE, v |-> Get(b.gpu.oam, addr - OAM_START)]
      [] InRange(addr, TIMER_START, TIMER_END) ->
           [ok |-> TRUE, v |-> Timer_load(b.timer, addr)]
      [] addr = JOYPAD_ADDR -> [ok |-> TRUE, v |-> Joypad_load(b.joypad)]
      [] addr = INT -> [ok |-> TRUE, v |-> Bus_load_interrupt(b)]
      [] addr = INTENB -> [ok |-> TRUE, v |-> InterruptFlag_u8(b.interruptenb)]
      [] addr = IO_LCDC -> [ok |-> TRUE, v |-> b.gpu.lcdc]
      [] addr = IO_SCY -> [ok |-> TRUE, v |-> b.gpu.scy]
      [] addr = IO_SCX -> [ok |-> TRUE, v |-> b.gpu.scx]
      [] addr = IO_LY -> [ok |-> TRUE, v |-> b.gpu.line]
      [] addr = IO_BGP -> [ok |-> TRUE, v |-> b.gpu.bg_palette]
      [] addr = IO_OBP0 -> [ok |-> TRUE, v |-> b.gpu.ob0_palette]
      [] addr = IO_OBP1 -> [ok |-> TRUE, v |-> b.gpu.ob1_palette]
      [] addr \in IO_ADDRS -> [ok |-> TRUE, v |-> 0]
      [] OTHER -> [ok |-> FALSE, v |-> 0]

\* Bus::dma: 160 load(..).unwrap() / store(..).unwrap() pairs into OAM. A source
\* byte that cannot be loaded panics.
Bus_dma(b, value) ==
    LET src == value * 256
        okAll == \A i \in 0..159 : Bus_load(b, src + i).ok
        oam2 == [i \in {j \in 0..159 : Bus_load(b, src + j).v # 0} |->
                    Bus_load(b, src + i).v]
    IN  IF okAll
        THEN [ok |-> TRUE, panic |-> FALSE,
              bus |-> [b EXCEPT !.gpu = Gpu_update_sprites([b.gpu EXCEPT !.oam = oam2])]]
        ELSE [ok |-> FALSE, panic |-> TRUE, bus |-> b]

\* Bus::store.
Bus_store(b, addr, value) ==
    LET Ok(b2) == [ok |-> TRUE, panic |-> FALSE, bus |-> b2]
    IN
    CASE InRange(addr, CATRIDGE_START, CATRIDGE_END) ->
           Ok([b EXCEPT !.catridge = Memory_store(b.catridge, "ReadOnly", addr, value)])
      [] InRange(addr, RAM_START, RAM_END) ->
           Ok([b EXCEPT !.ram = Memory_store(b.ram, "Normal", addr, value)])
      [] InRange(addr, HRAM_START, HRAM_END) ->
           Ok([b EXCEPT !.hram = Memory_store(b.hram, "Normal", addr, value)])
      [] InRange(addr, UNUSABLE_START, UNUSABLE_END) -> Ok(b)
      [] InRange(addr, VRAM_START, VRAM_END) ->
           Ok([b EXCEPT !.gpu.vram = Put(b.gpu.vram, addr - VRAM_START, value)])
      [] InRange(addr, OAM_START, OAM_END) ->
           Ok([b EXCEPT !.gpu = Gpu_store_oam(b.gpu, addr - OAM_START, value)])
      [] InRange(addr, TIMER_START, TIMER_END) ->
           Ok([b EXCEPT !.timer = Timer_store(b.timer, addr, value)])
      [] addr = JOYPAD_ADDR ->
           Ok([b EXCEPT !.joypad = Joypad_store(b.joypad, value)])
      [] addr = INT -> Ok(Bus_store_interrupt(b, value))
      [] addr = INTENB -> Ok([b EXCEPT !.interruptenb = InterruptFlag_from(value)])
      [] addr = IO_LCDC -> Ok([b EXCEPT !.gpu.lcdc = value])
      [] addr = IO_SCY -> Ok([b EXCEPT !.gpu.scy = value])
      [] addr = IO_SCX -> Ok([b EXCEPT !.gpu.scx = value])
      [] addr = IO_LY -> Ok([b EXCEPT !.gpu.line = 0])
      [] addr = IO_DMA -> Bus_dma(b, value)
      [] addr = IO_BGP -> Ok([b EXCEPT !.gpu.bg_palette = value])
      [] addr = IO_OBP0 -> Ok([b EXCEPT !.gpu.ob0_palette = value])
      [] addr = IO_OBP1 -> Ok([b EXCEPT !.gpu.ob1_palette = value])
      [] addr \in IO_ADDRS -> Ok(b)
      [] OTHER -> [ok |-> FALSE, panic |-> FALSE, bus |-> b]

\* Bus::load16: the high byte is loaded first; addr+1 is a u16 addition.
Bus_load16(b, addr) ==
    With(Bus_load(b, W16(addr + 1)), LAMBDA msb :
      With(Bus_load(b, addr), LAMBDA lsb :
        [ok |-> msb.ok /\ lsb.ok, v |-> msb.v * 256 + lsb.v,
         ovf |-> Ovf16(addr + 1)]))

\* A mutant of Bus_store16: the high byte goes to addr.
Bus_store16_big(b, addr, value) ==
    With(Bus_store(b, addr, (value \div 256) % 256), LAMBDA s1 :
      IF ~s1.ok THEN [ok |-> FALSE, panic |-> s1.panic, bus |-> s1.bus,
                      ovf |-> FALSE]
      ELSE With(Bus_store(s1.bus, W16(addr + 1), value % 256),
                LAMBDA s2 : [ok |-> s2.ok, panic |-> s2.panic, bus |-> s2.bus,
                             ovf |-> Ovf16(addr + 1)]))

\* Bus::store16: the low byte is stored first and stays stored when the second
\* store fails.
Bus_store16(b, addr, value) ==
    With(Bus_store(b, addr, value % 256), LAMBDA s1 :
      IF ~s1.ok THEN [ok |-> FALSE, panic |-> s1.panic, bus |-> s1.bus,
                      ovf |-> FALSE]
      ELSE With(Bus_store(s1.bus, W16(addr + 1), (value \div 256) % 256),
                LAMBDA s2 : [ok |-> s2.ok, panic |-> s2.panic, bus |-> s2.bus,
                             ovf |-> Ovf16(addr + 1)]))

-----------------------------------------------------------------------------
(* instruction.rs: the decoder *)

\* A decoded Instruction: the variant, its operands (source s, target t,
\* condition cond, restart address n).
I(op, s, t, cond, n) == [op |-> op, s |-> s, t |-> t, cond |-> cond, n |-> n]

None == I("None", "", "", "", 0)

\* Instruction::from_byte, arm by arm.
from_byte(byte) ==
    CASE byte = 0 -> I("NOP", "", "", "", 0)
      [] byte = 194 -> I("JP", "", "", "NotZero", 0)
      [] byte = 195 -> I("JP", "", "", "Always", 0)
      [] byte = 202 -> I("JP", "", "", "Zero", 0)
      [] byte = 210 -> I("JP", "", "", "NotCarry", 0)
      [] byte = 218 -> I("JP", "", "", "Carry", 0)
      [] byte = 243 -> I("DI", "", "", "", 0)
      [] byte = 1 -> I("LDIMM16", "", "BC", "", 0)
      [] byte = 17 -> I("LDIMM16", "", "DE", "", 0)
      [] byte = 33 -> I("LDIMM16", "", "HL", "", 0)
      [] byte = 49 -> I("LDIMM16", "", "SP", "", 0)
      [] byte = 234 -> I("LD16A", "", "", "", 0)
      [] byte = 250 -> I("LDA16", "", "", "", 0)
      [] byte = 6 -> I("LDIMM8", "", "B", "", 0)
      [] byte = 22 -> I("LDIMM8", "", "D", "", 0)
      [] byte = 38 -> I("LDIMM8", "", "H", "", 0)
      [] byte = 54 -> I("LDIMM8", "", "HL", "", 0)
      [] byte = 14 -> I("LDIMM8", "", "C", "", 0)
      [] byte = 30 -> I("LDIMM8", "", "E", "", 0)
      [] byte = 46 -> I("LDIMM8", "", "L", "", 0)
      [] byte = 62 -> I("LDIMM8", "", "A", "", 0)
      [] byte = 224 -> I("LD8A", "", "", "", 0)
      [] byte = 240 -> I("LDA8", "", "", "", 0)
      [] byte = 196 -> I("CALL", "", "", "NotZero", 0)
      [] byte = 204 -> I("CALL", "", "", "Zero", 0)
      [] byte = 205 -> I("CALL", "", "", "Always", 0)
      [] byte = 212 -> I("CALL", "", "", "NotCarry", 0)
      [] byte = 220 -> I("CALL", "", "", "Carry", 0)
      [] byte = 192 -> I("RET", "", "", "NotZero", 0)
      [] byte = 200 -> I("RET", "", "", "Zero", 0)
      [] byte = 201 -> I("RET", "", "", "Always", 0)
      [] byte = 208 -> I("RET", "", "", "NotCarry", 0)
      [] byte = 216 -> I("RET", "", "", "Carry", 0)
      [] byte = 197 -> I("PUSH", "", "BC", "", 0)
      [] byte = 213 -> I("PUSH", "", "DE", "", 0)
      [] byte = 229 -> I("PUSH", "", "HL", "", 0)
      [] byte = 245 -> I("PUSH", "", "AF", "", 0)
      [] byte = 193 -> I("POP", "", "BC", "", 0)
      [] byte = 209 -> I("POP", "", "DE", "", 0)
      [] byte = 225 -> I("POP", "", "HL", "", 0)
      [] byte = 241 -> I("POP", "", "AF", "", 0)
      [] byte = 2 -> I("LDRR", "A", "BC", "", 0)
      [] byte = 18 -> I("LDRR", "A", "DE", "", 0)
      [] byte = 34 -> I("LDRR", "A", "HLINC", "", 0)
      [] byte = 50 -> I("LDRR", "A", "HLDEC", "", 0)
      [] byte = 10 -> I("LDRR", "BC", "A", "", 0)
      [] byte = 26 -> I("LDRR", "DE", "A", "", 0)
      [] byte = 42 -> I("LDRR", "HLINC", "A", "", 0)
      [] byte = 58 -> I("LDRR", "HLDEC", "A", "", 0)
      [] byte = 120 -> I("LDRR", "B", "A", "", 0)
      [] byte = 125 -> I("LDRR", "L", "A", "", 0)
      [] byte = 124 -> I("LDRR", "H", "A", "", 0)
      [] byte = 64 -> I("LDRR", "B", "B", "", 0)
      [] byte = 65 -> I("LDRR", "C", "B", "", 0)
      [] byte = 66 -> I("LDRR", "D", "B", "", 0)
      [] byte = 67 -> I("LDRR", "E", "B", "", 0)
      [] byte = 68 -> I("LDRR", "H", "B", "", 0)
      [] byte = 69 -> I("LDRR", "L", "B", "", 0)
      [] byte = 70 -> I("LDRR", "HL", "B", "", 0)
      [] byte = 71 -> I("LDRR", "A", "B", "", 0)
      [] byte = 72 -> I("LDRR", "B", "C", "", 0)
      [] byte = 73 -> I("LDRR", "C", "C", "", 0)
      [] byte = 74 -> I("LDRR", "D", "C", "", 0)
      [] byte = 75 -> I("LDRR", "E", "C", "", 0)
      [] byte = 76 -> I("LDRR", "H", "C", "", 0)
      [] byte = 77 -> I("LDRR", "L", "C", "", 0)
      [] byte = 78 -> I("LDRR", "HL", "C", "", 0)
      [] byte = 79 -> I("LDRR", "A", "C", "", 0)
      [] byte = 80 -> I("LDRR", "B", "D", "", 0)
      [] byte = 81 -> I("LDRR", "C", "D", "", 0)
      [] byte = 82 -> I("LDRR", "D", "D", "", 0)
      [] byte = 83 -> I("LDRR", "E", "D", "", 0)
      [] byte = 84 -> I("LDRR", "H", "D", "", 0)
      [] byte = 85 -> I("LDRR", "L", "D", "", 0)
      [] byte = 86 -> I("LDRR", "HL", "D", "", 0)
      [] byte = 87 -> I("LDRR", "A", "D", "", 0)
      [] byte = 88 -> I("LDRR", "B", "E", "", 0)
      [] byte = 89 -> I("LDRR", "C", "E", "", 0)
      [] byte = 90 -> I("LDRR", "D", "E", "", 0)
      [] byte = 91 -> I("LDRR", "E", "E", "", 0)
      [] byte = 92 -> I("LDRR", "H", "E", "", 0)
      [] byte = 93 -> I("LDRR", "L", "E", "", 0)
      [] byte = 94 -> I("LDRR", "HL", "E", "", 0)
      [] byte = 95 -> I("LDRR", "A", "E", "", 0)
      [] byte = 96 -> I("LDRR", "B", "H", "", 0)
      [] byte = 97 -> I("LDRR", "C", "H", "", 0)
      [] byte = 98 -> I("LDRR", "D", "H", "", 0)
      [] byte = 99 -> I("LDRR", "E", "H", "", 0)
      [] byte = 100 -> I("LDRR", "H", "H", "", 0)
      [] byte = 101 -> I("LDRR", "L", "H", "", 0)
      [] byte = 102 -> I("LDRR", "HL", "H", "", 0)
      [] byte = 103 -> I("LDRR", "A", "H", "", 0)
      [] byte = 104 -> I("LDRR", "B", "L", "", 0)
      [] byte = 105 -> I("LDRR", "C", "L", "", 0)
      [] byte = 106 -> I("LDRR", "D", "L", "", 0)
      [] byte = 107 -> I("LDRR", "E", "L", "", 0)
      [] byte = 108 -> I("LDRR", "H", "L", "", 0)
      [] byte = 109 -> I("LDRR", "L", "L", "", 0)
      [] byte = 110 -> I("LDRR", "HL", "L", "", 0)
      [] byte = 111 -> I("LDRR", "A", "L", "", 0)
      [] byte = 24 -> I("JR", "", "", "Always", 0)
      [] byte = 32 -> I("JR", "", "", "NotZero", 0)
      [] byte = 40 -> I("JR", "", "", "Zero", 0)
      [] byte = 48 -> I("JR", "", "", "NotCarry", 0)
      [] byte = 56 -> I("JR", "", "", "Carry", 0)
      [] byte = 3 -> I("INC16", "", "BC", "", 0)
      [] byte = 19 -> I("INC16", "", "DE", "", 0)
      [] byte = 35 -> I("INC16", "", "HL", "", 0)
      [] byte = 51 -> I("INC16", "", "SP", "", 0)
      [] byte = 11 -> I("DEC16", "", "BC", "", 0)
      [] byte = 27 -> I("DEC16", "", "DE", "", 0)
      [] byte = 43 -> I("DEC16", "", "HL", "", 0)
      [] byte = 59 -> I("DEC16", "", "SP", "", 0)
      [] byte = 4 -> I("INC8", "", "B", "", 0)
      [] byte = 20 -> I("INC8", "", "D", "", 0)
      [] byte = 36 -> I("INC8", "", "H", "", 0)
      [] byte = 52 -> I("INC8", "", "HL", "", 0)
      [] byte = 12 -> I("INC8", "", "C", "", 0)
      [] byte = 28 -> I("INC8", "", "E", "", 0)
      [] byte = 44 -> I("INC8", "", "L", "", 0)
      [] byte = 60 -> I("INC8", "", "A", "", 0)
      [] byte = 5 -> I("DEC8", "", "B", "", 0)
      [] byte = 21 -> I("DEC8", "", "D", "", 0)
      [] byte = 37 -> I("DEC8", "", "H", "", 0)
      [] byte = 53 -> I("DEC8", "", "HL", "", 0)
      [] byte = 13 -> I("DEC8", "", "C", "", 0)
      [] byte = 29 -> I("DEC8", "", "E", "", 0)
      [] byte = 45 -> I("DEC8", "", "L", "", 0)
      [] byte = 61 -> I("DEC8", "", "A", "", 0)
      [] byte = 128 -> I("ADD", "", "B", "", 0)
      [] byte = 129 -> I("ADD", "", "C", "", 0)
      [] byte = 130 -> I("ADD", "", "D", "", 0)
      [] byte = 131 -> I("ADD", "", "E", "", 0)
      [] byte = 132 -> I("ADD", "", "H", "", 0)
      [] byte = 133 -> I("ADD", "", "L", "", 0)
      [] byte = 134 -> I("ADD", "", "HL", "", 0)
      [] byte = 135 -> I("ADD", "", "A", "", 0)
      [] byte = 198 -> I("ADD", "", "D8", "", 0)
      [] byte = 136 -> I("ADC", "", "B", "", 0)
      [] byte = 137 -> I("ADC", "", "C", "", 0)
      [] byte = 138 -> I("ADC", "", "D", "", 0)
      [] byte = 139 -> I("ADC", "", "E", "", 0)
      [] byte = 140 -> I("ADC", "", "H", "", 0)
      [] byte = 141 -> I("ADC", "", "L", "", 0)
      [] byte = 142 -> I("ADC", "", "HL", "", 0)
      [] byte = 143 -> I("ADC", "", "A", "", 0)
      [] byte = 206 -> I("ADC", "", "D8", "", 0)
      [] byte = 144 -> I("SUB", "", "B", "", 0)
      [] byte = 145 -> I("SUB", "", "C", "", 0)
      [] byte = 146 -> I("SUB", "", "D", "", 0)
      [] byte = 147 -> I("SUB", "", "E", "", 0)
      [] byte = 148 -> I("SUB", "", "H", "", 0)
      [] byte = 149 -> I("SUB", "", "L", "", 0)
      [] byte = 150 -> I("SUB", "", "HL", "", 0)
      [] byte = 151 -> I("SUB", "", "A", "", 0)
      [] byte = 214 -> I("SUB", "", "D8", "", 0)
      [] byte = 152 -> I("SBC", "", "B", "", 0)
      [] byte = 153 -> I("SBC", "", "C", "", 0)
      [] byte = 154 -> I("SBC", "", "D", "", 0)
      [] byte = 155 -> I("SBC", "", "E", "", 0)
      [] byte = 156 -> I("SBC", "", "H", "", 0)
      [] byte = 157 -> I("SBC", "", "L", "", 0)
      [] byte = 158 -> I("SBC", "", "HL", "", 0)
      [] byte = 159 -> I("SBC", "", "A", "", 0)
      [] byte = 222 -> I("SBC", "", "D8", "", 0)
      [] byte = 160 -> I("AND", "", "B", "", 0)
      [] byte = 161 -> I("AND", "", "C", "", 0)
      [] byte = 162 -> I("AND", "", "D", "", 0)
      [] byte = 163 -> I("AND", "", "E", "", 0)
      [] byte = 164 -> I("AND", "", "H", "", 0)
      [] byte = 165 -> I("AND", "", "L", "", 0)
      [] byte = 166 -> I("AND", "", "HL", "", 0)
      [] byte = 167 -> I("AND", "", "A", "", 0)
      [] byte = 230 -> I("AND", "", "D8", "", 0)
      [] byte = 168 -> I("XOR", "", "B", "", 0)
      [] byte = 169 -> I("XOR", "", "C", "", 0)
      [] byte = 170 -> I("XOR", "", "D", "", 0)
      [] byte = 171 -> I("XOR", "", "E", "", 0)
      [] byte = 172 -> I("XOR", "", "H", "", 0)
      [] byte = 173 -> I("XOR", "", "L", "", 0)
      [] byte = 174 -> I("XOR", "", "HL", "", 0)
      [] byte = 175 -> I("XOR", "", "A", "", 0)
      [] byte = 238 -> I("XOR", "", "D8", "", 0)
      [] byte = 176 -> I("OR", "", "B", "", 0)
      [] byte = 177 -> I("OR", "", "C", "", 0)
      [] byte = 178 -> I("OR", "", "D", "", 0)
      [] byte = 179 -> I("OR", "", "E", "", 0)
      [] byte = 180 -> I("OR", "", "H", "", 0)
      [] byte = 181 -> I("OR", "", "L", "", 0)
      [] byte = 182 -> I("OR", "", "HL", "", 0)
      [] byte = 183 -> I("OR", "", "A", "", 0)
      [] byte = 246 -> I("OR", "", "D8", "", 0)
      [] byte = 184 -> I("CMP", "", "B", "", 0)
      [] byte = 185 -> I("CMP", "", "C", "", 0)
      [] byte = 186 -> I("CMP", "", "D", "", 0)
      [] byte = 187 -> I("CMP", "", "E", "", 0)
      [] byte = 188 -> I("CMP", "", "H", "", 0)
      [] byte = 189 -> I("CMP", "", "L", "", 0)
      [] byte = 190 -> I("CMP", "", "HL", "", 0)
      [] byte = 191 -> I("CMP", "", "A", "", 0)
      [] byte = 254 -> I("CMP", "", "D8", "", 0)
      [] byte = 199 -> I("RST", "", "", "", 0)
      [] byte = 207 -> I("RST", "", "", "", 8)
      [] byte = 215 -> I("RST", "", "", "", 16)
      [] byte = 223 -> I("RST", "", "", "", 24)
      [] byte = 231 -> I("RST", "", "", "", 32)
      [] byte = 239 -> I("RST", "", "", "", 40)
      [] byte = 247 -> I("RST", "", "", "", 48)
      [] byte = 255 -> I("RST", "", "", "", 56)
      [] byte = 226 -> I("LDCA", "", "", "", 0)
      [] byte = 242 -> I("LDAC", "", "", "", 0)
      [] OTHER -> None

\* The variants Cpu::execute matches that the decoder under src/ does not
\* produce: their opcodes are those of the LR35902 tables the specification
\* names as normative.
from_byte_ext(byte) ==
    CASE byte = 7 -> I("RLCA", "", "", "", 0)
      [] byte = 8 -> I("LDA16SP", "", "", "", 0)
      [] byte = 9 -> I("ADDHL", "", "BC", "", 0)
      [] byte = 25 -> I("ADDHL", "", "DE", "", 0)
      [] byte = 41 -> I("ADDHL", "", "HL", "", 0)
      [] byte = 57 -> I("ADDHL", "", "SP", "", 0)
      [] byte = 31 -> I("RRA", "", "", "", 0)
      [] byte = 39 -> I("DAA", "", "", "", 0)
      [] byte = 47 -> I("CPL", "", "", "", 0)
      [] byte = 63 -> I("CCF", "", "", "", 0)
      [] byte = 217 -> I("RETI", "", "", "", 0)
      [] byte = 233 -> I("JPHL", "", "", "", 0)
      [] byte = 249 -> I("LDSPHL", "", "", "", 0)
      [] byte = 251 -> I("EI", "", "", "", 0)
      [] OTHER -> None

\* The decoder the CPU runs: from_byte, and the missing variants.
Decode(byte) ==
    IF from_byte(byte) # None THEN from_byte(byte) ELSE from_byte_ext(byte)

ALU == {"ADD", "ADC", "SUB", "SBC", "AND", "XOR", "OR", "CMP"}

\* Instruction::len.
Instruction_len(inst) ==
    CASE inst.op \in {"NOP", "DI", "LDRR", "RET", "PUSH", "POP", "INC16", "DEC16",
                      "INC8", "DEC8"} -> 1
      [] inst.op \in {"JP", "LDIMM16", "LD16A", "LDA16", "CALL"} -> 3
      [] inst.op \in {"LDIMM8", "LD8A", "LDA8", "LDCA", "LDAC", "JR"} -> 2
      [] inst.op \in ALU -> IF inst.t = "D8" THEN 2 ELSE 1
      [] inst.op = "RST" -> 0

\* Instruction::clock: the not-taken cost.
Instruction_clock(inst) ==
    CASE inst.op \in {"NOP", "DI"} -> 4
      [] inst.op \in {"JP", "LDIMM16", "LD8A", "LDA8", "CALL", "POP"} -> 12
      [] inst.op = "LDIMM8" -> IF inst.t = "HL" THEN 12 ELSE 8
      [] inst.op \in {"LD16A", "LDA16", "PUSH", "RST"} -> 16
      [] inst.op \in {"LDCA", "LDAC", "RET", "JR", "INC16", "DEC16"} -> 8
      [] inst.op = "LDRR" -> IF inst.s = "HL" \/ inst.t = "HL" THEN 8 ELSE 4
      [] inst.op \in {"INC8", "DEC8"} -> IF inst.t = "HL" THEN 12 ELSE 4
      [] inst.op \in ALU -> IF inst.t = "D8" \/ inst.t = "HL" THEN 2 ELSE 1

EXT == {"RLCA", "LDA16SP", "ADDHL", "RRA", "DAA", "CPL", "CCF", "RETI", "JPHL",
        "LDSPHL", "EI"}

\* len of the missing variants (LR35902 tables).
Instruction_len_ext(inst) ==
    IF inst.op = "LDA16SP" THEN 3 ELSE 1

\* clock of the missing variants (LR35902 tables).
Instruction_clock_ext(inst) ==
    CASE inst.op = "LDA16SP" -> 20
      [] inst.op = "RETI" -> 16
      [] inst.op \in {"ADDHL", "LDSPHL"} -> 8
      [] OTHER -> 4

\* CBInstruction::from_byte (LR35902 CB table): bits 7..3 name the operation
\* (and the bit), bits 2..0 the operand. Every byte decodes.
CB_TARGETS == <<"B", "C", "D", "E", "H", "L", "HL", "A">>
CB_SHIFTS == <<"RLC", "RRC", "RL", "RR", "SLA", "SRA", "SWAP", "SRL">>

CBInstruction_from_byte(byte) ==
    I(CASE byte < 64 -> CB_SHIFTS[byte \div 8 + 1]
        [] byte \in 64..127 -> "BIT"
        [] byte \in 128..191 -> "RES"
        [] OTHER -> "SET",
      "", CB_TARGETS[(byte % 8) + 1], "", IF byte < 64 THEN 0 ELSE (byte \div 8) % 8)

\* CBInstruction::clock (LR35902 CB table).
CBInstruction_clock(inst) ==
    IF inst.t # "HL" THEN 8 ELSE IF inst.op = "BIT" THEN 12 ELSE 16

Len_of(inst) ==
    IF inst.op \in EXT THEN Instruction_len_ext(inst) ELSE Instruction_len(inst)

Clock_of(inst) ==
    IF inst.op \in EXT THEN Instruction_clock_ext(inst) ELSE Instruction_clock(inst)

-----------------------------------------------------------------------------
(* register.rs *)

Register_default ==
    [a |-> 0, b |-> 0, c |-> 0, d |-> 0, e |-> 0, h |-> 0, l |-> 0,
     f |-> [zero |-> FALSE, subtract |-> FALSE, half_carry |-> FALSE,
            carry |-> FALSE]]

\* impl From<&FlagRegister> for u8.
FlagRegister_u8(f) ==
    (IF f.zero THEN 128 ELSE 0) + (IF f.subtract THEN 64 ELSE 0)
    + (IF f.half_carry THEN 32 ELSE 0) + (IF f.carry THEN 16 ELSE 0)

\* impl From<u8> for FlagRegister.
FlagRegister_from(byte) ==
    [zero |-> Bit(byte, 7) # 0, subtract |-> Bit(byte, 6) # 0,
     half_carry |-> Bit(byte, 5) # 0, carry |-> Bit(byte, 4) # 0]

get_af(r) == r.a * 256 + FlagRegister_u8(r.f)
get_bc(r) == r.b * 256 + r.c
get_de(r) == r.d * 256 + r.e
get_hl(r) == r.h * 256 + r.l

set_af(r, value) ==
    [r EXCEPT !.a = (value \div 256) % 256, !.f = FlagRegister_from(value % 256)]
set_bc(r, value) == [r EXCEPT !.b = (value \div 256) % 256, !.c = value % 256]
set_de(r, value) == [r EXCEPT !.d = (value \div 256) % 256, !.e = value % 256]
set_hl(r, value) == [r EXCEPT !.h = (value \div 256) % 256, !.l = value % 256]

-----------------------------------------------------------------------------
(* cpu.rs *)

InterruptState == {"IDisable", "IEnable", "IDisableNext", "IEnableNext"}

\* Cpu::new.
Cpu_new ==
    [regs |-> Register_default, sp |-> 0, pc |-> 256,
     interrupt_state |-> "IDisable"]

\* What an operation of the CPU answers: the state it leaves, Ok or Err, whether
\* it panicked (an unwrap), whether a checked u16 operation overflowed (a panic
\* in a debug build, a wrap in a release build), and the clock it returns.
Done(c, b, clock, ovf) ==
    [cpu |-> c, bus |-> b, ok |-> TRUE, panic |-> FALSE, ovf |-> ovf,
     clock |-> clock]

Fail(c, b, panic, ovf) ==
    [cpu |-> c, bus |-> b, ok |-> FALSE, panic |-> panic, ovf |-> ovf,
     clock |-> 0]

\* The tail of Cpu::execute: self.pc += len; Ok(clock).
Finish(c, b, inst, ovf) ==
    Done([c EXCEPT !.pc = W16(c.pc + Len_of(inst))], b, Clock_of(inst),
         ovf \/ Ovf16(c.pc + Len_of(inst)))

\* Cpu::check_condition.
check_condition(c, condition) ==
    CASE condition = "NotZero" -> ~c.regs.f.zero
      [] condition = "Zero" -> c.regs.f.zero
      [] condition = "NotCarry" -> ~c.regs.f.carry
      [] condition = "Carry" -> c.regs.f.carry
      [] condition = "Always" -> TRUE

\* Cpu::get_r8.
get_r8(c, b, target) ==
    CASE target = "A" -> [ok |-> TRUE, v |-> c.regs.a]
      [] target = "B" -> [ok |-> TRUE, v |-> c.regs.b]
      [] target = "C" -> [ok |-> TRUE, v |-> c.regs.c]
      [] target = "D" -> [ok |-> TRUE, v |-> c.regs.d]
      [] target = "E" -> [ok |-> TRUE, v |-> c.regs.e]
      [] target = "H" -> [ok |-> TRUE, v |-> c.regs.h]
      [] target = "L" -> [ok |-> TRUE, v |-> c.regs.l]
      [] target = "HL" -> Bus_load(b, get_hl(c.regs))
      [] target = "D8" -> Bus_load(b, c.pc)
      [] OTHER -> [ok |-> FALSE, v |-> 0]

\* Cpu::set_r8.
set_r8(c, b, target, value) ==
    CASE target = "A" -> [ok |-> TRUE, panic |-> FALSE, cpu |-> [c EXCEPT !.regs.a = value], bus |-> b]
      [] target = "B" -> [ok |-> TRUE, panic |-> FALSE, cpu |-> [c EXCEPT !.regs.b = value], bus |-> b]
      [] target = "C" -> [ok |-> TRUE, panic |-> FALSE, cpu |-> [c EXCEPT !.regs.c = value], bus |-> b]
      [] target = "D" -> [ok |-> TRUE, panic |-> FALSE, cpu |-> [c EXCEPT !.regs.d = value], bus |-> b]
      [] target = "E" -> [ok |-> TRUE, panic |-> FALSE, cpu |-> [c EXCEPT !.regs.e = value], bus |-> b]
      [] target = "H" -> [ok |-> TRUE, panic |-> FALSE, cpu |-> [c EXCEPT !.regs.h = value], bus |-> b]
      [] target = "L" -> [ok |-> TRUE, panic |-> FALSE, cpu |-> [c EXCEPT !.regs.l = value], bus |-> b]
      [] target = "HL" ->
           With(Bus_store(b, get_hl(c.regs), value), LAMBDA st :
             [ok |-> st.ok, panic |-> st.panic, cpu |-> c, bus |-> st.bus])
      [] OTHER -> [ok |-> FALSE, panic |-> FALSE, cpu |-> c, bus |-> b]

\* Instruction::JP.
Exec_JP(c, b, inst) ==
    IF check_condition(c, inst.cond)
    THEN With(Bus_load16(b, c.pc), LAMBDA a :
           IF a.ok THEN Done([c EXCEPT !.pc = a.v], b, 16, a.ovf)
           ELSE Fail(c, b, FALSE, a.ovf))
    ELSE Finish(c, b, inst, FALSE)

\* Instruction::DI.
Exec_DI(c, b, inst) ==
    Finish([c EXCEPT !.interrupt_state = "IDisableNext"], b, inst, FALSE)

\* A mutant of Exec_EI: interrupts are enabled at once.
Exec_EI_now(c, b, inst) ==
    Finish([c EXCEPT !.interrupt_state = "IEnable"], b, inst, FALSE)

\* Instruction::EI.
Exec_EI(c, b, inst) ==
    Finish([c EXCEPT !.interrupt_state = "IEnableNext"], b, inst, FALSE)

\* Instruction::LDIMM16.
Exec_LDIMM16(c, b, inst) ==
    With(Bus_load16(b, c.pc), LAMBDA imm :
      IF ~imm.ok THEN Fail(c, b, FALSE, imm.ovf)
      ELSE CASE inst.t = "BC" ->
                  Finish([c EXCEPT !.regs = set_bc(c.regs, imm.v)], b, inst, imm.ovf)
             [] inst.t = "DE" ->
                  Finish([c EXCEPT !.regs = set_de(c.regs, imm.v)], b, inst, imm.ovf)
             [] inst.t = "HL" ->
                  Finish([c EXCEPT !.regs = set_hl(c.regs, imm.v)], b, inst, imm.ovf)
             [] inst.t = "SP" -> Finish([c EXCEPT !.sp = imm.v], b, inst, imm.ovf)
             [] OTHER -> Fail(c, b, FALSE, imm.ovf))

\* Instruction::LD16A.
Exec_LD16A(c, b, inst) ==
    With(Bus_load16(b, c.pc), LAMBDA addr :
      IF ~addr.ok THEN Fail(c, b, FALSE, addr.ovf)
      ELSE With(Bus_store(b, addr.v, c.regs.a), LAMBDA st :
             IF ~st.ok THEN Fail(c, st.bus, st.panic, addr.ovf)
             ELSE Finish(c, st.bus, inst, addr.ovf)))

\* Instruction::LDA16.
Exec_LDA16(c, b, inst) ==
    With(Bus_load16(b, c.pc), LAMBDA addr :
      IF ~addr.ok THEN Fail(c, b, FALSE, addr.ovf)
      ELSE With(Bus_load(b, addr.v), LAMBDA ld :
             IF ~ld.ok THEN Fail(c, b, FALSE, addr.ovf)
             ELSE Finish([c EXCEPT !.regs.a = ld.v], b, inst, addr.ovf)))

\* Instruction::LDIMM8.
Exec_LDIMM8(c, b, inst) ==
    With(Bus_load(b, c.pc), LAMBDA imm :
      IF ~imm.ok THEN Fail(c, b, FALSE, FALSE)
      ELSE With(set_r8(c, b, inst.t, imm.v), LAMBDA st :
             IF ~st.ok THEN Fail(st.cpu, st.bus, st.panic, FALSE)
             ELSE Finish(st.cpu, st.bus, inst, FALSE)))

\* Instruction::LD8A.
Exec_LD8A(c, b, inst) ==
    With(Bus_load(b, c.pc), LAMBDA a8 :
      IF ~a8.ok THEN Fail(c, b, FALSE, FALSE)
      ELSE With(Bus_store(b, 65280 + a8.v, c.regs.a), LAMBDA st :
             IF ~st.ok THEN Fail(c, st.bus, st.panic, FALSE)
             ELSE Finish(c, st.bus, inst, FALSE)))

\* Instruction::LDA8.
Exec_LDA8(c, b, inst) ==
    With(Bus_load(b, c.pc), LAMBDA a8 :
      IF ~a8.ok THEN Fail(c, b, FALSE, FALSE)
      ELSE With(Bus_load(b, 65280 + a8.v), LAMBDA ld :
             IF ~ld.ok THEN Fail(c, b, FALSE, FALSE)
             ELSE Finish([c EXCEPT !.regs.a = ld.v], b, inst, FALSE)))

\* Instruction::LDCA.
Exec_LDCA(c, b, inst) ==
    With(Bus_store(b, 65280 + c.regs.c, c.regs.a), LAMBDA st :
      IF ~st.ok THEN Fail(c, st.bus, st.panic, FALSE)
      ELSE Finish(c, st.bus, inst, FALSE))

\* Instruction::LDAC.
Exec_LDAC(c, b, inst) ==
    With(Bus_load(b, 65280 + c.regs.c), LAMBDA ld :
      IF ~ld.ok THEN Fail(c, b, FALSE, FALSE)
      ELSE Finish([c EXCEPT !.regs.a = ld.v], b, inst, FALSE))

\* A mutant of Exec_CALL: the address pushed is that of the operand's second
\* byte.
Exec_CALL_short(c, b, inst) ==
    IF check_condition(c, inst.cond)
    THEN With(Bus_load16(b, c.pc), LAMBDA addr :
           IF ~addr.ok THEN Fail(c, b, FALSE, addr.ovf)
           ELSE With(Bus_store16(b, W16(c.sp - 1), W16(c.pc + 1)), LAMBDA st :
                  IF ~st.ok THEN Fail(c, st.bus, st.panic, Ovf16(c.sp - 1))
                  ELSE Done([c EXCEPT !.sp = W16(c.sp - 2), !.pc = addr.v],
                            st.bus, 24, Ovf16(c.sp - 1) \/ Ovf16(c.sp - 2))))
    ELSE Finish(c, b, inst, FALSE)

\* Instruction::CALL.
Exec_CALL(c, b, inst) ==
    IF check_condition(c, inst.cond)
    THEN With(Bus_load16(b, c.pc), LAMBDA addr :
           IF ~addr.ok THEN Fail(c, b, FALSE, addr.ovf)
           ELSE With(Bus_store16(b, W16(c.sp - 1), W16(c.pc + 2)), LAMBDA st :
                  With(addr.ovf \/ Ovf16(c.sp - 1) \/ Ovf16(c.pc + 2) \/ st.ovf,
                       LAMBDA ovf :
                    IF ~st.ok THEN Fail(c, st.bus, st.panic, ovf)
                    ELSE Done([c EXCEPT !.sp = W16(c.sp - 2), !.pc = addr.v],
                              st.bus, 24, ovf \/ Ovf16(c.sp - 2)))))
    ELSE Finish(c, b, inst, FALSE)

\* Instruction::RET.
Exec_RET(c, b, inst) ==
    IF check_condition(c, inst.cond)
    THEN With(Bus_load16(b, W16(c.sp + 1)), LAMBDA ld :
           IF ~ld.ok THEN Fail(c, b, FALSE, Ovf16(c.sp + 1) \/ ld.ovf)
           ELSE Done([c EXCEPT !.pc = ld.v, !.sp = W16(c.sp + 2)], b,
                     IF inst.cond = "Always" THEN 16 ELSE 20,
                     Ovf16(c.sp + 1) \/ ld.ovf \/ Ovf16(c.sp + 2)))
    ELSE Finish(c, b, inst, FALSE)

\* A mutant of Exec_RETI: the return defers the enable like EI.
Exec_RETI_deferred(c, b, inst) ==
    With(Bus_load16(b, W16(c.sp + 1)), LAMBDA ld :
      IF ~ld.ok
      THEN Fail([c EXCEPT !.interrupt_state = "IEnableNext"], b, FALSE,
                Ovf16(c.sp + 1) \/ ld.ovf)
      ELSE Done([c EXCEPT !.interrupt_state = "IEnableNext", !.pc = ld.v,
                          !.sp = W16(c.sp + 2)], b,
                Clock_of(inst), Ovf16(c.sp + 1) \/ ld.ovf \/ Ovf16(c.sp + 2)))

\* Instruction::RETI.
Exec_RETI(c, b, inst) ==
    With(Bus_load16(b, W16(c.sp + 1)), LAMBDA ld :
      IF ~ld.ok
      THEN Fail([c EXCEPT !.interrupt_state = "IEnable"], b, FALSE,
                Ovf16(c.sp + 1) \/ ld.ovf)
      ELSE Done([c EXCEPT !.interrupt_state = "IEnable", !.pc = ld.v,
                          !.sp = W16(c.sp + 2)], b,
                Clock_of(inst), Ovf16(c.sp + 1) \/ ld.ovf \/ Ovf16(c.sp + 2)))

\* Instruction::PUSH.
Exec_PUSH(c, b, inst) ==
    IF inst.t \notin {"BC", "DE", "HL", "AF"} THEN Fail(c, b, FALSE, FALSE)
    ELSE With(CASE inst.t = "BC" -> get_bc(c.regs)
                [] inst.t = "DE" -> get_de(c.regs)
                [] inst.t = "HL" -> get_hl(c.regs)
                [] inst.t = "AF" -> get_af(c.regs), LAMBDA value :
           With(Bus_store16(b, W16(c.sp - 1), value), LAMBDA st :
             IF ~st.ok THEN Fail(c, st.bus, st.panic, Ovf16(c.sp - 1) \/ st.ovf)
             ELSE Finish([c EXCEPT !.sp = W16(c.sp - 2)], st.bus, inst,
                         Ovf16(c.sp - 1) \/ st.ovf \/ Ovf16(c.sp - 2))))

\* Instruction::POP.
Exec_POP(c, b, inst) ==
    With(Bus_load16(b, W16(c.sp + 1)), LAMBDA ld :
      IF ~ld.ok \/ inst.t \notin {"BC", "DE", "HL", "AF"}
      THEN Fail(c, b, FALSE, Ovf16(c.sp + 1) \/ ld.ovf)
      ELSE With(CASE inst.t = "BC" -> set_bc(c.regs, ld.v)
                  [] inst.t = "DE" -> set_de(c.regs, ld.v)
                  [] inst.t = "HL" -> set_hl(c.regs, ld.v)
                  [] inst.t = "AF" -> set_af(c.regs, ld.v), LAMBDA r2 :
             Finish([c EXCEPT !.regs = r2, !.sp = W16(c.sp + 2)], b, inst,
                    Ovf16(c.sp + 1) \/ ld.ovf \/ Ovf16(c.sp + 2))))

\* Instruction::JR: offset as i8 as u16 is the sign extension.
Exec_JR(c, b, inst) ==
    IF check_condition(c, inst.cond)
    THEN With(Bus_load(b, c.pc), LAMBDA ld :
           IF ~ld.ok THEN Fail(c, b, FALSE, FALSE)
           ELSE With(W16(c.pc + (IF ld.v < 128 THEN ld.v ELSE 65280 + ld.v)),
                     LAMBDA pc1 :
                  Done([c EXCEPT !.pc = W16(pc1 + Len_of(inst))], b, 12,
                       Ovf16(pc1 + Len_of(inst)))))
    ELSE Finish(c, b, inst, FALSE)

\* Instruction::RST.
Exec_RST(c, b, inst) ==
    With(Bus_store16(b, W16(c.sp - 1), c.pc), LAMBDA st :
      IF ~st.ok THEN Fail(c, st.bus, st.panic, Ovf16(c.sp - 1) \/ st.ovf)
      ELSE Finish([c EXCEPT !.sp = W16(c.sp - 2), !.pc = inst.n], st.bus, inst,
                  Ovf16(c.sp - 1) \/ st.ovf \/ Ovf16(c.sp - 2)))

\* Instruction::INC16: the pairs wrap, SP is a checked addition.
Exec_INC16(c, b, inst) ==
    CASE inst.t = "BC" ->
           Finish([c EXCEPT !.regs = set_bc(c.regs, W16(get_bc(c.regs) + 1))], b, inst, FALSE)
      [] inst.t = "DE" ->
           Finish([c EXCEPT !.regs = set_de(c.regs, W16(get_de(c.regs) + 1))], b, inst, FALSE)
      [] inst.t = "HL" ->
           Finish([c EXCEPT !.regs = set_hl(c.regs, W16(get_hl(c.regs) + 1))], b, inst, FALSE)
      [] inst.t = "SP" ->
           Finish([c EXCEPT !.sp = W16(c.sp + 1)], b, inst, Ovf16(c.sp + 1))
      [] OTHER -> Fail(c, b, FALSE, FALSE)

\* Instruction::DEC16.
Exec_DEC16(c, b, inst) ==
    CASE inst.t = "BC" ->
           Finish([c EXCEPT !.regs = set_bc(c.regs, W16(get_bc(c.regs) - 1))], b, inst, FALSE)
      [] inst.t = "DE" ->
           Finish([c EXCEPT !.regs = set_de(c.regs, W16(get_de(c.regs) - 1))], b, inst, FALSE)
      [] inst.t = "HL" ->
           Finish([c EXCEPT !.regs = set_hl(c.regs, W16(get_hl(c.regs) - 1))], b, inst, FALSE)
      [] inst.t = "SP" ->
           Finish([c EXCEPT !.sp = W16(c.sp - 1)], b, inst, Ovf16(c.sp - 1))
      [] OTHER -> Fail(c, b, FALSE, FALSE)

\* Instruction::INC8.
Exec_INC8(c, b, inst) ==
    With(get_r8(c, b, inst.t), LAMBDA g :
      IF ~g.ok THEN Fail(c, b, FALSE, FALSE)
      ELSE With(W8(g.v + 1), LAMBDA value :
             With(set_r8([c EXCEPT !.regs.f.subtract = FALSE,
                                   !.regs.f.half_carry = (g.v % 16 = 15),
                                   !.regs.f.zero = (value = 0)],
                         b, inst.t, value), LAMBDA st :
               IF ~st.ok THEN Fail(st.cpu, st.bus, st.panic, FALSE)
               ELSE Finish(st.cpu, st.bus, inst, FALSE))))

\* Instruction::DEC8.
Exec_DEC8(c, b, inst) ==
    With(get_r8(c, b, inst.t), LAMBDA g :
      IF ~g.ok THEN Fail(c, b, FALSE, FALSE)
      ELSE With(W8(g.v - 1), LAMBDA value :
             With(set_r8([c EXCEPT !.regs.f.subtract = TRUE,
                                   !.regs.f.half_carry = (g.v % 16 = 0),
                                   !.regs.f.zero = (value = 0)],
                         b, inst.t, value), LAMBDA st :
               IF ~st.ok THEN Fail(st.cpu, st.bus, st.panic, FALSE)
               ELSE Finish(st.cpu, st.bus, inst, FALSE))))

\* Instruction::ADD .. Instruction::CMP: A and the flags the arm leaves for the
\* operand value (cy is the carry flag as 0 or 1).
ALU_regs(op, r, value) ==
    LET a == r.a
        cy == IF r.f.carry THEN 1 ELSE 0
        F(z, n, h, c) == [zero |-> z, subtract |-> n, half_carry |-> h, carry |-> c]
    IN  CASE op = "ADD" ->
               [r EXCEPT !.a = W8(a + value),
                         !.f = F(W8(a + value) = 0, FALSE,
                                 (a % 16) + (value % 16) > 15, a + value > 255)]
          [] op = "ADC" ->
               [r EXCEPT !.a = (a + value + cy) % 256,
                         !.f = F((a + value + cy) % 256 = 0, FALSE,
                                 (a % 16) + (value % 16) + cy > 15,
                                 a + value + cy > 255)]
          [] op = "SUB" ->
               [r EXCEPT !.a = W8(a - value),
                         !.f = F(W8(a - value) = 0, TRUE,
                                 (a % 16) > (value % 16), a > value)]
          [] op = "SBC" ->
               [r EXCEPT !.a = W8(W8(a - value) - cy),
                         !.f = F(W8(W8(a - value) - cy) = 0, TRUE,
                                 (a % 16) > (value % 16) + cy, a > value + cy)]
          [] op = "AND" ->
               [r EXCEPT !.a = And8(a, value),
                         !.f = F(And8(a, value) = 0, FALSE, TRUE, FALSE)]
          [] op = "XOR" ->
               [r EXCEPT !.a = Xor8(a, value),
                         !.f = F(Xor8(a, value) = 0, FALSE, FALSE, FALSE)]
          [] op = "OR" ->
               [r EXCEPT !.a = Or8(a, value),
                         !.f = F(Or8(a, value) = 0, FALSE, FALSE, FALSE)]
          [] op = "CMP" ->
               [r EXCEPT !.f = F(a = value, TRUE, (a % 16) > (value % 16),
                                 a < value)]

\* The arithmetic and logic arms: the operand comes from get_r8.
Exec_ALU(c, b, inst) ==
    With(get_r8(c, b, inst.t), LAMBDA g :
      IF ~g.ok THEN Fail(c, b, FALSE, FALSE)
      ELSE Finish([c EXCEPT !.regs = ALU_regs(inst.op, c.regs, g.v)], b, inst,
                  FALSE))

\* Instruction::JPHL.
Exec_JPHL(c, b, inst) ==
    Done([c EXCEPT !.pc = get_hl(c.regs)], b, Clock_of(inst), FALSE)

\* Instruction::LDA16SP.
Exec_LDA16SP(c, b, inst) ==
    With(Bus_load16(b, c.pc), LAMBDA addr :
      IF ~addr.ok THEN Fail(c, b, FALSE, addr.ovf)
      ELSE With(Bus_store16(b, addr.v, c.sp), LAMBDA st :
             IF ~st.ok THEN Fail(c, st.bus, st.panic, addr.ovf \/ st.ovf)
             ELSE Finish(c, st.bus, inst, addr.ovf \/ st.ovf)))

\* Instruction::LDSPHL.
Exec_LDSPHL(c, b, inst) ==
    Finish([c EXCEPT !.sp = get_hl(c.regs)], b, inst, FALSE)

\* Instruction::CPL.
Exec_CPL(c, b, inst) ==
    Finish([c EXCEPT !.regs.a = 255 - c.regs.a, !.regs.f.subtract = TRUE,
                     !.regs.f.half_carry = TRUE], b, inst, FALSE)

\* Instruction::CCF.
Exec_CCF(c, b, inst) ==
    Finish([c EXCEPT !.regs.f.subtract = FALSE, !.regs.f.half_carry = FALSE,
                     !.regs.f.carry = ~c.regs.f.carry], b, inst, FALSE)

\* Instruction::ADDHL: hl + value is a checked u16 addition.
Exec_ADDHL(c, b, inst) ==
    IF inst.t \notin {"BC", "DE", "HL", "SP"} THEN Fail(c, b, FALSE, FALSE)
    ELSE With(CASE inst.t = "BC" -> get_bc(c.regs)
                [] inst.t = "DE" -> get_de(c.regs)
                [] inst.t = "HL" -> get_hl(c.regs)
                [] inst.t = "SP" -> c.sp, LAMBDA value :
           With(get_hl(c.regs), LAMBDA hl :
             Finish([c EXCEPT !.regs = set_hl([c.regs EXCEPT
                                  !.f.subtract = FALSE,
                                  !.f.half_carry = (hl % 4096) + (value % 4096) > 4095,
                                  !.f.carry = hl + value > 65535],
                                W16(hl + value))],
                    b, inst, Ovf16(hl + value))))

\* Instruction::RRA.
Exec_RRA(c, b, inst) ==
    Finish([c EXCEPT !.regs.a = (c.regs.a \div 2)
                                + (IF c.regs.f.carry THEN 128 ELSE 0),
                     !.regs.f = [zero |-> FALSE, subtract |-> FALSE,
                                 half_carry |-> FALSE,
                                 carry |-> c.regs.a % 2 = 1]], b, inst, FALSE)

\* Instruction::RLCA: the zero flag follows the result.
Exec_RLCA(c, b, inst) ==
    With(((c.regs.a * 2) % 256) + (c.regs.a \div 128), LAMBDA result :
      Finish([c EXCEPT !.regs.a = result,
                       !.regs.f = [zero |-> result = 0, subtract |-> FALSE,
                                   half_carry |-> FALSE,
                                   carry |-> c.regs.a \div 128 = 1]], b, inst, FALSE))

\* Instruction::DAA. value is a u16: the subtractions are checked (ovf), the
\* additions cannot overflow; the zero flag looks at all 16 bits.
DAA_value(r) ==
    LET v0 == r.a
        v1s == IF r.f.half_carry THEN W16(v0 - 6) % 256 ELSE v0
        v2s == IF r.f.carry THEN W16(v1s - 96) ELSE v1s
        v1a == IF r.f.half_carry \/ v0 % 16 > 0 THEN v0 + 6 ELSE v0
        v2a == IF r.f.carry \/ v1a > 159 THEN v1a + 96 ELSE v1a
    IN  IF r.f.subtract
        THEN [v |-> v2s, ovf |-> (r.f.half_carry /\ v0 < 6) \/ (r.f.carry /\ v1s < 96)]
        ELSE [v |-> v2a, ovf |-> FALSE]

Exec_DAA(c, b, inst) ==
    With(DAA_value(c.regs), LAMBDA d :
      Finish([c EXCEPT !.regs.a = d.v % 256,
                       !.regs.f = [zero |-> d.v = 0, subtract |-> FALSE,
                                   half_carry |-> FALSE,
                                   carry |-> c.regs.f.carry \/ Bit(d.v, 8) = 1]],
             b, inst, d.ovf))

R8 == {"A", "B", "C", "D", "E", "H", "L"}

\* Instruction::LDRR: the register and (HL) pairs, then the (BC), (DE), (HL+)
\* and (HL-) forms; any other pair is Err.
Exec_LDRR(c, b, inst) ==
    LET s == inst.s
        t == inst.t
        hl == get_hl(c.regs)
        Move ==
            With(get_r8(c, b, s), LAMBDA g :
              IF ~g.ok THEN Fail(c, b, FALSE, FALSE)
              ELSE With(set_r8(c, b, t, g.v), LAMBDA st :
                     IF ~st.ok THEN Fail(st.cpu, st.bus, st.panic, FALSE)
                     ELSE Finish(st.cpu, st.bus, inst, FALSE)))
        addr == CASE "BC" \in {s, t} -> get_bc(c.regs)
                  [] "DE" \in {s, t} -> get_de(c.regs)
                  [] OTHER -> hl
        hl2 == CASE "HLINC" \in {s, t} -> W16(hl + 1)
                 [] "HLDEC" \in {s, t} -> W16(hl - 1)
                 [] OTHER -> hl
        StoreA ==
            With(Bus_store(b, addr, c.regs.a), LAMBDA st :
              IF ~st.ok THEN Fail(c, st.bus, st.panic, FALSE)
              ELSE Finish([c EXCEPT !.regs = set_hl(c.regs, hl2)], st.bus, inst, FALSE))
        LoadA ==
            With(Bus_load(b, addr), LAMBDA ld :
              IF ~ld.ok THEN Fail(c, b, FALSE, FALSE)
              ELSE Finish([c EXCEPT !.regs = set_hl([c.regs EXCEPT !.a = ld.v], hl2)],
                          b, inst, FALSE))
        Pairs == {"BC", "DE", "HLINC", "HLDEC"}
    IN  CASE s \in R8 \cup {"HL"} /\ t \in R8 \cup {"HL"} /\ ~(s = "HL" /\ t = "HL") -> Move
          [] s = "A" /\ t \in Pairs -> StoreA
          [] s \in Pairs /\ t = "A" -> LoadA
          [] OTHER -> Fail(c, b, FALSE, FALSE)

\* Cpu::execute: the match over the variants.
Cpu_execute(c, b, inst) ==
    CASE inst.op = "NOP" -> Finish(c, b, inst, FALSE)
      [] inst.op = "JP" -> Exec_JP(c, b, inst)
      [] inst.op = "DI" -> Exec_DI(c, b, inst)
      [] inst.op = "EI" -> Exec_EI(c, b, inst)
      [] inst.op = "LDIMM16" -> Exec_LDIMM16(c, b, inst)
      [] inst.op = "LD16A" -> Exec_LD16A(c, b, inst)
      [] inst.op = "LDA16" -> Exec_LDA16(c, b, inst)
      [] inst.op = "LDIMM8" -> Exec_LDIMM8(c, b, inst)
      [] inst.op = "LD8A" -> Exec_LD8A(c, b, inst)
      [] inst.op = "LDA8" -> Exec_LDA8(c, b, inst)
      [] inst.op = "LDCA" -> Exec_LDCA(c, b, inst)
      [] inst.op = "LDAC" -> Exec_LDAC(c, b, inst)
      [] inst.op = "LDRR" -> Exec_LDRR(c, b, inst)
      [] inst.op = "CALL" -> Exec_CALL(c, b, inst)
      [] inst.op = "RET" -> Exec_RET(c, b, inst)
      [] inst.op = "RETI" -> Exec_RETI(c, b, inst)
      [] inst.op = "PUSH" -> Exec_PUSH(c, b, inst)
      [] inst.op = "POP" -> Exec_POP(c, b, inst)
      [] inst.op = "JR" -> Exec_JR(c, b, inst)
      [] inst.op = "INC16" -> Exec_INC16(c, b, inst)
      [] inst.op = "DEC16" -> Exec_DEC16(c, b, inst)
      [] inst.op = "INC8" -> Exec_INC8(c, b, inst)
      [] inst.op = "DEC8" -> Exec_DEC8(c, b, inst)
      [] inst.op = "RST" -> Exec_RST(c, b, inst)
      [] inst.op \in ALU -> Exec_ALU(c, b, inst)
      [] inst.op = "JPHL" -> Exec_JPHL(c, b, inst)
      [] inst.op = "LDA16SP" -> Exec_LDA16SP(c, b, inst)
      [] inst.op = "LDSPHL" -> Exec_LDSPHL(c, b, inst)
      [] inst.op = "CPL" -> Exec_CPL(c, b, inst)
      [] inst.op = "CCF" -> Exec_CCF(c, b, inst)
      [] inst.op = "ADDHL" -> Exec_ADDHL(c, b, inst)
      [] inst.op = "RRA" -> Exec_RRA(c, b, inst)
      [] inst.op = "RLCA" -> Exec_RLCA(c, b, inst)
      [] inst.op = "DAA" -> Exec_DAA(c, b, inst)

\* The value and the flags a CB operation leaves for the operand value: the
\* arms of Cpu::execute_cb between get_r8 and set_r8 (u8 shifts drop the bits
\* shifted out). RES and SET keep the flags, BIT keeps the carry.
CB_value(inst, value, f) ==
    CASE inst.op = "RLC" -> ((value * 2) % 256) + (value \div 128)
      [] inst.op = "RRC" -> (value \div 2) + (value % 2) * 128
      [] inst.op = "RL" -> ((value * 2) % 256) + (IF f.carry THEN 1 ELSE 0)
      [] inst.op = "RR" -> (value \div 2) + (IF f.carry THEN 128 ELSE 0)
      [] inst.op = "SLA" -> (value * 2) % 256
      [] inst.op = "SRA" -> (value \div 2) + (value \div 128) * 128
      [] inst.op = "SWAP" -> ((value * 16) % 256) + (value \div 16)
      [] inst.op = "SRL" -> value \div 2
      [] inst.op = "BIT" -> Bit(value, inst.n)
      [] inst.op = "RES" -> value - Bit(value, inst.n) * (2 ^ inst.n)
      [] inst.op = "SET" -> value + (1 - Bit(value, inst.n)) * (2 ^ inst.n)

CB_flags(inst, value, result, f) ==
    CASE inst.op \in {"RLC", "RL", "SLA"} ->
           [zero |-> result = 0, subtract |-> FALSE, half_carry |-> FALSE,
            carry |-> value \div 128 = 1]
      [] inst.op \in {"RRC", "RR", "SRA", "SRL"} ->
           [zero |-> result = 0, subtract |-> FALSE, half_carry |-> FALSE,
            carry |-> value % 2 = 1]
      [] inst.op = "SWAP" ->
           [zero |-> result = 0, subtract |-> FALSE, half_carry |-> FALSE,
            carry |-> FALSE]
      [] inst.op = "BIT" ->
           [f EXCEPT !.zero = (result = 0), !.subtract = FALSE, !.half_carry = TRUE]
      [] inst.op \in {"RES", "SET"} -> f

\* Cpu::execute_cb: the operand is read with get_r8, the flags are set, the
\* result is written with set_r8 (BIT writes nothing); pc is left alone.
Cpu_execute_cb(c, b, inst) ==
    With(get_r8(c, b, inst.t), LAMBDA g :
      IF ~g.ok THEN Fail(c, b, FALSE, FALSE)
      ELSE With(CB_value(inst, g.v, c.regs.f), LAMBDA result :
             With([c EXCEPT !.regs.f = CB_flags(inst, g.v, result, c.regs.f)],
                  LAMBDA c2 :
               IF inst.op = "BIT" THEN Done(c2, b, CBInstruction_clock(inst), FALSE)
               ELSE With(set_r8(c2, b, inst.t, result), LAMBDA st :
                      IF ~st.ok THEN Fail(st.cpu, st.bus, st.panic, FALSE)
                      ELSE Done(st.cpu, st.bus, CBInstruction_clock(inst), FALSE)))))

\* Cpu::fetch: the word at pc is loaded, pc is incremented whether the load
\* failed or not, and the caller keeps the low byte.
Cpu_fetch(c, b) ==
    With(Bus_load16(b, c.pc), LAMBDA ld :
      [ok |-> ld.ok, v |-> ld.v % 256, cpu |-> [c EXCEPT !.pc = W16(c.pc + 1)],
       ovf |-> ld.ovf \/ Ovf16(c.pc + 1)])

\* A mutant of Cpu_exec_one_instruction: the byte after 0xCB goes through the
\* primary table.
Cpu_exec_one_instruction_cb_primary(c, b) ==
    With(Cpu_fetch(c, b), LAMBDA f :
      With(Decode(f.v), LAMBDA inst :
        CASE ~f.ok -> Fail(f.cpu, b, FALSE, f.ovf)
          [] f.ok /\ f.v = 203 ->
               With(Cpu_fetch(f.cpu, b), LAMBDA f2 :
                 IF ~f2.ok \/ Decode(f2.v) = None
                 THEN Fail(f2.cpu, b, FALSE, f.ovf \/ f2.ovf)
                 ELSE With(Cpu_execute_cb(f2.cpu, b, CBInstruction_from_byte(f2.v)),
                           LAMBDA r : [r EXCEPT !.ovf = r.ovf \/ f.ovf \/ f2.ovf]))
          [] f.ok /\ f.v # 203 /\ inst = None -> Fail(f.cpu, b, FALSE, f.ovf)
          [] f.ok /\ f.v # 203 /\ inst # None ->
               With(Cpu_execute(f.cpu, b, inst), LAMBDA r :
                 [r EXCEPT !.ovf = r.ovf \/ f.ovf])))

\* Cpu::exec_one_instruction: after 0xCB a second byte is fetched and goes
\* through CBInstruction::from_byte, which knows every byte.
Cpu_exec_one_instruction(c, b) ==
    With(Cpu_fetch(c, b), LAMBDA f :
      With(Decode(f.v), LAMBDA inst :
        CASE ~f.ok -> Fail(f.cpu, b, FALSE, f.ovf)
          [] f.ok /\ f.v = 203 ->
               With(Cpu_fetch(f.cpu, b), LAMBDA f2 :
                 IF ~f2.ok THEN Fail(f2.cpu, b, FALSE, f.ovf \/ f2.ovf)
                 ELSE With(Cpu_execute_cb(f2.cpu, b, CBInstruction_from_byte(f2.v)),
                           LAMBDA r : [r EXCEPT !.ovf = r.ovf \/ f.ovf \/ f2.ovf]))
          [] f.ok /\ f.v # 203 /\ inst = None -> Fail(f.cpu, b, FALSE, f.ovf)
          [] f.ok /\ f.v # 203 /\ inst # None ->
               With(Cpu_execute(f.cpu, b, inst), LAMBDA r :
                 [r EXCEPT !.ovf = r.ovf \/ f.ovf])))

\* Cpu::handle_interrupt.
Cpu_handle_interrupt(c, b) ==
    IF b.interruptenb.vblank /\ b.gpu.is_interrupt
    THEN Cpu_execute([c EXCEPT !.interrupt_state = "IDisable"],
                     [b EXCEPT !.gpu.is_interrupt = FALSE],
                     I("RST", "", "", "", 64))
    ELSE Done(c, b, 0, FALSE)

\* What a load through the bus can answer, without the counters behind it:
\* everything but the timer's registers, and the timer's registers.
Bus_visible(b) ==
    [b EXCEPT !.gpu.clock = 0, !.gpu.mode = "ScanlineOAM", !.gpu.raised = FALSE,
              !.timer = Timer_new]

Timer_visible(t) == [t EXCEPT !.div_counter = 0, !.timer_counter = 0]

\* A mutant of Cpu_step_inst: the timer is not given the clock.
Cpu_step_inst_gpu_only(c, b) ==
    With(Cpu_exec_one_instruction(c, b), LAMBDA e :
      IF ~e.ok THEN e
      ELSE [e EXCEPT !.bus.gpu = Gpu_update(e.bus.gpu, e.clock)])

\* The instruction pass of Cpu::step: exec_one_instruction, then the clock goes
\* to the picture unit and the timer.
Cpu_step_inst(c, b) ==
    With(Cpu_exec_one_instruction(c, b), LAMBDA e :
      IF ~e.ok THEN e
      ELSE [e EXCEPT !.bus.gpu = Gpu_update(e.bus.gpu, e.clock),
                     !.bus.timer = Timer_update(e.bus.timer, e.clock)])

\* The interrupt pass of Cpu::step, entered in IEnable and IDisableNext.
Cpu_step_pass(c, b) ==
    IF c.interrupt_state \notin {"IEnable", "IDisableNext"} THEN Done(c, b, 0, FALSE)
    ELSE With(Cpu_handle_interrupt(c, b), LAMBDA h :
           IF ~h.ok THEN h
           ELSE [h EXCEPT !.bus.gpu = Gpu_update(h.bus.gpu, h.clock),
                          !.bus.timer = Timer_update(h.bus.timer, h.clock)])

\* A mutant of Cpu_step_commit: a deferred disable is never committed.
Cpu_step_commit_keep(c) ==
    [c EXCEPT !.interrupt_state =
        CASE c.interrupt_state = "IEnableNext" -> "IEnable"
          [] OTHER -> c.interrupt_state]

\* Cpu::step, the match that closes it: the deferred states are committed at
\* the end of the very step that set them.
Cpu_step_commit(c) ==
    [c EXCEPT !.interrupt_state =
        CASE c.interrupt_state = "IDisableNext" -> "IDisable"
          [] c.interrupt_state = "IEnableNext" -> "IEnable"
          [] OTHER -> c.interrupt_state]

\* Cpu::step. Err leaves what was done before the ? that returned it. The
\* answer also carries what the two passes answered (inst, pass).
Cpu_step(c, b) ==
    With(Cpu_step_inst(c, b), LAMBDA e :
      With(Cpu_step_pass(e.cpu, e.bus), LAMBDA h :
        LET r == IF ~e.ok THEN e
                 ELSE IF ~h.ok THEN [h EXCEPT !.ovf = e.ovf \/ h.ovf]
                 ELSE [h EXCEPT !.cpu = Cpu_step_commit(h.cpu),
                                !.ovf = e.ovf \/ h.ovf,
                                !.clock = e.clock + h.clock]
        IN  [cpu |-> r.cpu, bus |-> r.bus, ok |-> r.ok, panic |-> r.panic,
             ovf |-> r.ovf, clock |-> r.clock, inst |-> e, pass |-> h]))

-----------------------------------------------------------------------------
(* Cartridge images: the byte vector the host hands to the machine *)

\* The cells base.. of an image.
Seg(base, bytes) == [a \in base..(base + Len(bytes) - 1) |-> bytes[a - base + 1]]

RECURSIVE Flat(_)
Flat(s) == IF s = <<>> THEN <<>> ELSE Head(s) \o Flat(Tail(s))

\* An opcode Instruction::from_byte does not know, twice: step answers Err
\* there, whichever of the two cells pc reaches.
STOP == <<211, 211>>

\* The instructions a program body is made of. Cpu::fetch adds 1 to pc and
\* Cpu::execute adds Instruction::len, which counts the opcode again: the byte
\* after an instruction's operands is stepped over, and is 0 here.
P_NOP == <<0, 0>>
P_EI == <<251, 0>>
P_DI == <<243, 0>>
P_LDH_IF_A == <<224, 15, 0>>             \* LDH (0x0F),A
P_TAC == <<62, 5, 0, 224, 7, 0>>         \* LD A,5 ; LDH (0x07),A
P_CALL == <<205, 0, 2>>                  \* CALL 0x0200 (a RET is there)
P_CALLI == <<205, 16, 2>>                \* CALL 0x0210 (a RETI is there)
Pieces == {P_NOP, P_EI, P_DI, P_LDH_IF_A, P_TAC, P_CALL, P_CALLI}

\* The longest body, in pieces.
MaxBody == 3

Bodies == UNION {[1..n -> Pieces] : n \in 0..MaxBody}

\* The values a program writes to IE (0xFFFF) and to IF (0xFF0F).
IEValues == {0, 1, 4}
IFValues == {0, 1, 16}

\* The handler at 0x0040: an unknown opcode, or RETI.
Handlers == {STOP, <<217>>}

\* A program either sets SP to 0xFFFE first, or leaves it 0 and has no handler
\* to return from.
Setups == {<<TRUE, h>> : h \in Handlers} \cup {<<FALSE, STOP>>}

\* 0x0100: [LD SP,0xFFFE ;] LD A,ie ; LDH (0xFF),A ; LD A,if ; LDH (0x0F),A ;
\* JP 0x02FE. The body is at 0x02FE, so that the instruction after a leading
\* one-byte instruction is at 0x0300.
Program(setsp, ie, if, body, handler) ==
    Seg(64, handler)
    @@ Seg(256, (IF setsp THEN <<49, 254, 255, 0>> ELSE <<>>)
                \o <<62, ie, 0, 224, 255, 0, 62, if, 0, 224, 15, 0, 195, 254, 2>>)
    @@ Seg(512, <<201>>)
    @@ Seg(528, <<217>>)
    @@ Seg(766, Flat(body) \o STOP)

\* 0x0100: LDH (0x44),A ; LDH (0x04),A ; JP 0x0100 - a loop that keeps writing
\* LY (and DIV); with ly = FALSE the first store goes to SCY (0x42) instead.
LoopProgram(ly) ==
    Seg(256, <<224, IF ly THEN 68 ELSE 66, 0, 224, 4, 0, 195, 0, 1>>)

-----------------------------------------------------------------------------
(* The machine *)

NoObs ==
    [op |-> "", ok |-> FALSE, died |-> FALSE,
     pc0 |-> 0, sp0 |-> 0, ime0 |-> "IDisable",
     iev0 |-> FALSE, iet0 |-> FALSE, ifv0 |-> FALSE, ift0 |-> FALSE,
     pc1 |-> 0, sp1 |-> 0, ime1 |-> "IDisable", pendv1 |-> FALSE, pendt1 |-> FALSE,
     dispatched |-> FALSE, clock1 |-> 0, clock2 |-> 0, kept |-> TRUE,
     kept_timer |-> TRUE, raised |-> FALSE, pushed |-> 0, top0 |-> 0,
     prev_op |-> "", prev_ime0 |-> "IDisable"]

NoFrame == [cycles |-> 0, lines |-> {0}, raises |-> 0, returned |-> FALSE]

\* What one call of step did: the state it started in (..0), the state between
\* the instruction pass and the interrupt pass (..1), and what the interrupt
\* pass did.
Observe(c, b, r, o) ==
    LET e == r.inst
        h == r.pass
        taken == e.ok /\ e.cpu.interrupt_state \in {"IEnable", "IDisableNext"}
                 /\ e.bus.interruptenb.vblank /\ e.bus.gpu.is_interrupt
    IN  [op |-> With(Cpu_fetch(c, b), LAMBDA f :
                  IF f.ok THEN Decode(f.v).op ELSE ""),
         ok |-> r.ok, died |-> FALSE,
         pc0 |-> c.pc, sp0 |-> c.sp, ime0 |-> c.interrupt_state,
         iev0 |-> b.interruptenb.vblank, iet0 |-> b.interruptenb.timer,
         ifv0 |-> b.gpu.is_interrupt, ift0 |-> b.timer.is_interrupt,
         pc1 |-> e.cpu.pc, sp1 |-> e.cpu.sp, ime1 |-> e.cpu.interrupt_state,
         pendv1 |-> e.bus.interruptenb.vblank /\ e.bus.gpu.is_interrupt,
         pendt1 |-> e.bus.interruptenb.timer /\ e.bus.timer.is_interrupt,
         dispatched |-> taken /\ h.ok,
         clock1 |-> e.clock,
         clock2 |-> IF e.ok THEN h.clock ELSE 0,
         kept |-> ~e.ok \/ (h.ok /\ h.cpu = e.cpu
                            /\ Bus_visible(h.bus) = Bus_visible(e.bus)),
         kept_timer |-> ~e.ok \/ (h.ok /\ Timer_visible(h.bus.timer)
                                              = Timer_visible(e.bus.timer)),
         raised |-> e.ok /\ (e.bus.gpu.raised \/ (h.ok /\ h.bus.gpu.raised
                                                  /\ h.bus.gpu # e.bus.gpu)),
         pushed |-> IF taken /\ h.ok THEN Bus_load16(r.bus, W16(r.cpu.sp + 1)).v ELSE 0,
         top0 |-> Bus_load16(b, W16(c.sp + 1)).v,
         prev_op |-> o.op, prev_ime0 |-> o.ime0]

Builds == {"debug", "release"}

Init ==
    /\ cpu = Cpu_new
    /\ \E setup \in Setups, ie \in IEValues, if \in IFValues, body \in Bodies :
            bus = Bus_new(Program(setup[1], ie, if, body, setup[2]))
    /\ build \in Builds
    /\ halted = "run"
    /\ obs = NoObs
    /\ frame = NoFrame

\* What one call of Cpu::step leaves. An unwrap of Err panics in every build;
\* an overflowing u16 operation panics in a debug build and wraps in a release
\* build.
StepOutcome(c, b, bld, o) ==
    With(Cpu_step(c, b), LAMBDA r :
      LET dies == r.panic \/ (r.ovf /\ bld = "debug")
      IN  [halted |-> IF dies THEN "panic" ELSE IF r.ok THEN "run" ELSE "err",
           cpu |-> IF dies THEN c ELSE r.cpu,
           bus |-> IF dies THEN b ELSE r.bus,
           obs |-> IF dies THEN [NoObs EXCEPT !.died = TRUE]
                   ELSE Observe(c, b, r, o)])

\* One call of Cpu::step by the host. After Err or a panic the host calls step
\* no more.
Step ==
    /\ halted = "run"
    /\ \E out \in {StepOutcome(cpu, bus, build, obs)} :
           /\ halted' = out.halted
           /\ cpu' = out.cpu
           /\ bus' = out.bus
           /\ obs' = out.obs
    /\ UNCHANGED <<build, frame>>

Next == Step

Spec == Init /\ [][Next]_vars

-----------------------------------------------------------------------------
(* The picture unit driven directly: Gpu::update with any clock, and stores to
   LY through the bus *)

\* The clocks Cpu::execute and Instruction::clock answer, 0 (an interrupt pass
\* that served nothing), and one clock longer than a whole line.
LongClock == 500
GpuClocks == {0, 1, 2, 4, 8, 12, 16, 20, 24, LongClock}

\* The accumulator is kept below this (update takes one transition a call, so
\* long clocks pile up).
MaxGpuClock == 600

LYValues == {0, 153, 255}

InitGpu ==
    /\ cpu = Cpu_new
    /\ bus = Bus_new(Empty)
    /\ build = "release"
    /\ halted = "run"
    /\ obs = NoObs
    /\ frame = NoFrame

\* Gpu::update(clock). frame.raises counts the raises since the unit last went
\* from VBlank back to ScanlineOAM.
GpuUpdate ==
    \E clock \in GpuClocks :
        LET g == Gpu_update(bus.gpu, clock)
            back == bus.gpu.mode = "VBlank" /\ g.mode = "ScanlineOAM"
            n == (IF back THEN 0 ELSE frame.raises) + (IF g.raised THEN 1 ELSE 0)
        IN  /\ bus.gpu.clock + clock <= MaxGpuClock
            /\ bus' = [bus EXCEPT !.gpu = g]
            /\ frame' = [frame EXCEPT !.raises = IF n > 2 THEN 2 ELSE n,
                                      !.returned = back]
            /\ UNCHANGED <<cpu, build, halted, obs>>

\* Bus::store(0xFF44, value).
StoreLY ==
    \E value \in LYValues :
        LET st == Bus_store(bus, IO_LY, value)
        IN  /\ st.ok
            /\ bus' = st.bus
            /\ frame' = [frame EXCEPT !.returned = FALSE]
            /\ UNCHANGED <<cpu, build, halted, obs>>

NextGpu == GpuUpdate \/ StoreLY

SpecGpu == InitGpu /\ [][NextGpu]_vars

-----------------------------------------------------------------------------
(* One frame of the picture unit, with no store to LY *)

\* Gpu::update(clock) until the unit is back in ScanlineOAM from VBlank, with
\* the cycles handed over, the lines LY took and the raises.
FrameUpdate ==
    \E clock \in GpuClocks :
        LET g == Gpu_update(bus.gpu, clock)
        IN  /\ ~frame.returned
            /\ bus.gpu.clock + clock <= MaxGpuClock
            /\ bus' = [bus EXCEPT !.gpu = g]
            /\ frame' = [cycles |-> frame.cycles + clock,
                         lines |-> frame.lines \cup {g.line},
                         raises |-> frame.raises + (IF g.raised THEN 1 ELSE 0),
                         returned |-> bus.gpu.mode = "VBlank" /\ g.mode = "ScanlineOAM"]
            /\ UNCHANGED <<cpu, build, halted, obs>>

NextFrame == FrameUpdate

SpecFrame == InitGpu /\ [][NextFrame]_vars

-----------------------------------------------------------------------------
(* A host that keeps calling step *)

InitLive ==
    /\ cpu = Cpu_new
    /\ bus = Bus_new(LoopProgram(TRUE))
    /\ build \in Builds
    /\ halted = "run"
    /\ obs = NoObs
    /\ frame = NoFrame

\* step is called again as long as the last call answered Ok.
SpecLive == InitLive /\ [][Next]_vars /\ WF_vars(Step)

-----------------------------------------------------------------------------
(* The timer driven directly: Timer::update with the clocks Cpu::step hands
   over, and stores to its registers through the bus. In these specifications
   frame counts the cycles handed over and obs tells what the last call was. *)

\* The clocks of one call: what Instruction::clock answers, and 0.
TimerClocks == {0, 1, 2, 4, 8, 12, 16, 20, 24}

\* The cycles handed over before any store to DIV, and after one.
MaxDivCycles == 66000
MaxAfterWrite == 600

NoDiv == [cycles |-> 0, wrote |-> FALSE]

\* Timer::update(clock), as Cpu::step calls it.
DivUpdate ==
    /\ \E clock \in TimerClocks :
         /\ frame.cycles + clock
              <= (IF frame.wrote THEN MaxAfterWrite ELSE MaxDivCycles)
         /\ bus' = [bus EXCEPT !.timer = Timer_update(bus.timer, clock)]
         /\ frame' = [frame EXCEPT !.cycles = frame.cycles + clock]
    /\ UNCHANGED <<cpu, build, halted, obs>>

\* A store to DIV (0xFF04); cycles are counted from it afterwards.
DivStore ==
    /\ \E value \in {0, 171} :
         bus' = Bus_store(bus, TIMER_START, value).bus
    /\ frame' = [cycles |-> 0, wrote |-> TRUE]
    /\ UNCHANGED <<cpu, build, halted, obs>>

InitDiv ==
    /\ cpu = Cpu_new
    /\ bus = Bus_new(Empty)
    /\ build = "release"
    /\ halted = "run"
    /\ obs = NoObs
    /\ frame = NoDiv

NextDiv == DivUpdate \/ DivStore

SpecDiv == InitDiv /\ [][NextDiv]_vars

\* The cycles handed over and the stores made in one run of the timer behind
\* TAC: enough for the slowest scale (1024) to tick.
MaxTimerCycles == 1100
MaxTimerStores == 3

\* The program sets the timer up first: the cycles after which nothing more
\* is stored.
LastStoreAt == 0

\* The clocks of one call in these runs: some of what Instruction::clock
\* answers (one of them longer than the fastest scale's 16 cycles), and 0.
TimaClocks == {0, 4, 8, 16, 24}

\* What is stored to DIV (0xFF04), TIMA (0xFF05), TMA (0xFF06) and TAC
\* (0xFF07).
TimerStores ==
    {<<65284, 7>>, <<65285, 255>>, <<65286, 66>>}
    \cup {<<65287, v>> : v \in {3, 4, 5, 6, 7}}

NoTima == [cycles |-> 0, stores |-> 0]

\* Timer::update(clock), as Cpu::step calls it.
TimaUpdate ==
    /\ \E clock \in TimaClocks :
         /\ frame.cycles + clock <= MaxTimerCycles
         /\ bus' = [bus EXCEPT !.timer = Timer_update(bus.timer, clock)]
         /\ obs' = [op |-> "update", clock |-> clock, addr |-> 0,
                    before |-> bus.timer]
         /\ frame' = [frame EXCEPT !.cycles = frame.cycles + clock]
    /\ UNCHANGED <<cpu, build, halted>>

\* A store to TIMA, TMA or TAC through the bus.
TimaStore ==
    /\ frame.stores < MaxTimerStores
    /\ frame.cycles <= LastStoreAt
    /\ \E s \in TimerStores :
         /\ bus' = Bus_store(bus, s[1], s[2]).bus
         /\ obs' = [op |-> "store", clock |-> 0, addr |-> s[1],
                    before |-> bus.timer]
    /\ frame' = [frame EXCEPT !.stores = frame.stores + 1]
    /\ UNCHANGED <<cpu, build, halted>>

InitTima ==
    /\ cpu = Cpu_new
    /\ bus = Bus_new(Empty)
    /\ build = "release"
    /\ halted = "run"
    /\ obs = NoObs
    /\ frame = NoTima

NextTima == TimaUpdate \/ TimaStore

SpecTima == InitTima /\ [][NextTima]_vars

-----------------------------------------------------------------------------
(* The bus alone: stores of bytes and of words, and the copy to the sprite
   table, over a cartridge image of a few bytes *)

\* The longest image, the bytes an image is made of, the number of stores.
MaxImage == 2
ImageBytes == {0, 90}
MaxBusOps == 3

\* The images: main.rs reads the file into a vector of bytes.
Images == UNION {[1..n -> ImageBytes] : n \in 0..MaxImage}

\* Addresses of the cartridge (inside the image, past it, the last one), of
\* the work RAM, of the sprite table, and the register that starts the copy.
BusAddrs == {0, 2, CATRIDGE_END, RAM_START, OAM_START, IO_DMA}

\* Bytes stored: as values, and as source pages of the copy (0x00 cartridge,
\* 0xC0 work RAM, 0xFE the sprite table, 0xA0 and 0xFF not loadable all over).
BusValues == {0, 18, 160, 192, 254, 255}

\* Addresses of word stores: the first and the last pair of each read-write
\* region, and the last byte of the work RAM.
BusAddrs16 ==
    {VRAM_START, VRAM_END - 1, RAM_START, RAM_END - 1, RAM_END,
     OAM_START + 1, OAM_END - 1, HRAM_START, HRAM_END - 1}

BusWords == {4660, 255}

NoBus == [op |-> "", addr |-> 0, value |-> 0, ok |-> TRUE, panic |-> FALSE,
          before |-> Bus_new(Empty)]

\* The state after a store: a panic ends the process.
AfterStore(op, addr, value, r) ==
    /\ bus' = r.bus
    /\ halted' = IF r.panic THEN "panic" ELSE "run"
    /\ obs' = [op |-> op, addr |-> addr, value |-> value, ok |-> r.ok,
               panic |-> r.panic, before |-> bus]

\* Bus::store8.
BusStore8 ==
    /\ halted = "run"
    /\ frame.n < MaxBusOps
    /\ \E addr \in BusAddrs, value \in BusValues :
         AfterStore("store8", addr, value, Bus_store(bus, addr, value))
    /\ frame' = [frame EXCEPT !.n = frame.n + 1]
    /\ UNCHANGED <<cpu, build>>

\* Bus::store16.
BusStore16 ==
    /\ halted = "run"
    /\ frame.n < MaxBusOps
    /\ \E addr \in BusAddrs16, value \in BusWords :
         AfterStore("store16", addr, value, Bus_store16(bus, addr, value))
    /\ frame' = [frame EXCEPT !.n = frame.n + 1]
    /\ UNCHANGED <<cpu, build>>

InitBus ==
    /\ cpu = Cpu_new
    /\ \E image \in Images :
         /\ bus = Bus_new(Memory_new(CATRIDGE_START,
                                     CATRIDGE_END - CATRIDGE_START + 1, image))
         /\ frame = [image |-> image, n |-> 0]
    /\ build = "release"
    /\ halted = "run"
    /\ obs = NoBus

NextBus == BusStore8 \/ BusStore16

SpecBus == InitBus /\ [][NextBus]_vars

-----------------------------------------------------------------------------
(* The address map: loads and stores of bytes all over the 16-bit space *)

MaxIoOps == 3

\* The sound registers' range 0xFF10-0xFF3F.
SOUND == 65296..65343

\* The addresses tried: the first and last address of every range of the
\* map and of every gap between two ranges, and the whole sound range.
MapAddrs ==
    {CATRIDGE_START, CATRIDGE_END, VRAM_START, VRAM_END, 40960, 49151,
     RAM_START, RAM_END, 57344, 65023, OAM_START, OAM_END,
     UNUSABLE_START, UNUSABLE_END, JOYPAD_ADDR, 65281, 65283,
     TIMER_START, TIMER_END, 65288, INT, IO_LCDC, 65349, 65355, 65356,
     65407, HRAM_START, HRAM_END, INTENB} \cup SOUND

MapValues == {0, 165}

\* Bus::load8.
MapLoad8 ==
    /\ halted = "run"
    /\ frame.n < MaxIoOps
    /\ \E addr \in MapAddrs :
         obs' = With(Bus_load(bus, addr), LAMBDA r :
                  [op |-> "load8", addr |-> addr, value |-> r.v, ok |-> r.ok,
                   panic |-> FALSE, before |-> bus])
    /\ frame' = [frame EXCEPT !.n = frame.n + 1]
    /\ UNCHANGED <<cpu, bus, build, halted>>

\* Bus::store8.
MapStore8 ==
    /\ halted = "run"
    /\ frame.n < MaxIoOps
    /\ \E addr \in MapAddrs, value \in MapValues :
         AfterStore("store8", addr, value, Bus_store(bus, addr, value))
    /\ frame' = [frame EXCEPT !.n = frame.n + 1]
    /\ UNCHANGED <<cpu, build>>

InitMap ==
    /\ cpu = Cpu_new
    /\ bus = Bus_new(Empty)
    /\ frame = [image |-> <<>>, n |-> 0]
    /\ build = "release"
    /\ halted = "run"
    /\ obs = NoBus

NextMap == MapLoad8 \/ MapStore8

SpecMap == InitMap /\ [][NextMap]_vars

-----------------------------------------------------------------------------
(* The joypad: key events from the host and stores to 0xFF00 *)

\* Bytes stored to 0xFF00: the two row selections, both bits, none, and two
\* bytes with other bits set.
MaskValues == {0, 16, 32, 48, 47, 208}

\* frame.pressed is the set of keys whose most recent event was a press.
JoyPress ==
    /\ \E key \in JoypadKey :
         /\ bus' = [bus EXCEPT !.joypad = Joypad_presskey(bus.joypad, key)]
         /\ frame' = [pressed |-> frame.pressed \cup {key}]
         /\ obs' = [op |-> "press", key |-> key, before |-> bus.joypad]
    /\ UNCHANGED <<cpu, build, halted>>

JoyRelease ==
    /\ \E key \in JoypadKey :
         /\ bus' = [bus EXCEPT !.joypad = Joypad_releasekey(bus.joypad, key)]
         /\ frame' = [pressed |-> frame.pressed \ {key}]
         /\ obs' = [op |-> "release", key |-> key, before |-> bus.joypad]
    /\ UNCHANGED <<cpu, build, halted>>

JoyStore ==
    /\ \E value \in MaskValues :
         bus' = Bus_store(bus, JOYPAD_ADDR, value).bus
    /\ obs' = [op |-> "store", key |-> "", before |-> bus.joypad]
    /\ UNCHANGED <<cpu, build, halted, frame>>

InitJoy ==
    /\ cpu = Cpu_new
    /\ bus = Bus_new(Empty)
    /\ frame = [pressed |-> {}]
    /\ build = "release"
    /\ halted = "run"
    /\ obs = [op |-> "", key |-> "", before |-> Joypad_new]

NextJoy == JoyPress \/ JoyRelease \/ JoyStore

SpecJoy == InitJoy /\ [][NextJoy]_vars

-----------------------------------------------------------------------------
(* The machine run on small images, one instruction at a time, with the
   instructions it ran kept in frame.trace *)

\* The most steps one image is run for.
MaxSteps == 8

\* LD SP,d16 / LD rr,d16 / PUSH rr / POP rr, each with the cell Cpu::execute
\* steps over after it.
LDSP(v) == <<49, v % 256, v \div 256, 0>>
LD16(rr, v) ==
    <<(CASE rr = "BC" -> 1 [] rr = "DE" -> 17 [] rr = "HL" -> 33),
      v % 256, v \div 256, 0>>
PUSH(rr) ==
    <<(CASE rr = "BC" -> 197 [] rr = "DE" -> 213 [] rr = "HL" -> 229
         [] rr = "AF" -> 245), 0>>
POP(rr) ==
    <<(CASE rr = "BC" -> 193 [] rr = "DE" -> 209 [] rr = "HL" -> 225
         [] rr = "AF" -> 241), 0>>

\* An image that starts at 0x0100 and ends in the unknown opcode.
Image(code) == Seg(256, code \o STOP)

\* One opcode at 0x0100 with the operand bytes 0x10 0x01, unknown opcodes
\* from 0x0103 to 0x0111.
OneOpImages ==
    {Seg(256, <<op, 16, 1>> \o [i \in 1..15 |-> 211]) : op \in 0..255}

\* LD HL,hl ; CB xx for every second byte xx, with HL in the work RAM and in
\* the unmapped 0xA000.
CBImages ==
    {Image(LD16("HL", hl) \o <<203, xx>>) : hl \in {49152, 40960}, xx \in 0..255}

\* LD A,(0xA000), and a program that is interrupted with SP = 0xA001:
\* LD SP,0xA001 ; LD A,1 ; LDH (0xFF),A ; LDH (0x0F),A ; EI ; NOP ; NOP.
ErrImages ==
    {Image(<<250, 0, 160>>),
     Image(LDSP(40961) \o <<62, 1, 0, 224, 255, 0, 224, 15, 0, 251, 0, 0, 0, 0, 0>>)}

\* The same program with SP = 0xFFFE and RETI at 0x0040: the interrupt is
\* served and returned from.
DispatchImages ==
    {Seg(64, <<217>>)
     @@ Image(LDSP(65534) \o <<62, 1, 0, 224, 255, 0, 224, 15, 0, 251, 0, 0, 0, 0, 0>>)}

\* The conditional branches, each with its condition true and false:
\* LD SP,0xD000 ; [XOR A | LD A,0xF0 ; ADD A,0x20] ; op 0x10 0x01 - XOR A sets
\* Z, the addition sets C. The bytes after a branch are NOPs.
CondOps == {194, 202, 210, 218, 32, 40, 48, 56, 196, 204, 212, 220, 192, 200, 208, 216}
FlagSetups == {<<>>, <<175, 0>>, <<62, 240, 0, 198, 32, 0>>}
CondImages ==
    {Seg(256, LDSP(53248) \o f \o <<op, 16, 1>>) : f \in FlagSetups, op \in CondOps}

\* Where the stack is put: high RAM, work RAM, the cartridge; or SP is left 0.
StackTops == {65534, 53248, 16384}
StackSetups == {LDSP(sp) : sp \in StackTops} \cup {<<>>}

\* [LD SP,sp ;] LD rr,v ; PUSH rr ; POP rr -- LD BC,v ; PUSH BC ; POP AF ;
\* PUSH AF ; POP AF -- LD BC,v ; LD DE,w ; PUSH BC ; PUSH DE ; POP BC ; POP DE.
StackImages ==
    {Image(s \o LD16(rr, v) \o PUSH(rr) \o POP(rr)) :
        s \in StackSetups, rr \in {"BC", "DE", "HL"}, v \in {4853, 65535}}
    \cup {Image(s \o LD16("BC", v) \o PUSH("BC") \o POP("AF") \o PUSH("AF")
                \o POP("AF")) : s \in StackSetups, v \in {4853, 255, 43776}}
    \cup {Image(s \o LD16("BC", 4660) \o LD16("DE", 22136) \o PUSH("BC")
                \o PUSH("DE") \o POP("BC") \o POP("DE")) : s \in StackSetups}

\* [LD SP,sp ;] CALL 0x1234, with RET at 0x1234.
CallImages ==
    {Image(s \o <<205, 52, 18>>) @@ Seg(4660, <<201>>) : s \in StackSetups}

\* JP 0x0200 ; at 0x0200 JR e (0x18) or JR NZ,e (0x20) with the offset e,
\* unknown opcodes around it.
JRImages ==
    {Seg(256, <<195, 0, 2>>) @@ Seg(500, [i \in 1..12 |-> 211])
     @@ Seg(512, <<op, e>> \o [i \in 1..12 |-> 211]) :
        op \in {24, 32}, e \in {5, 0, 251}}

InstImages ==
    OneOpImages \cup CBImages \cup ErrImages \cup StackImages \cup CallImages
    \cup JRImages \cup DispatchImages \cup CondImages

\* The instruction step is about to run: None when the fetch fails or the byte
\* is unknown; the CB instruction (cond "CB") after the prefix.
Fetched(c, b) ==
    With(Cpu_fetch(c, b), LAMBDA f :
      IF ~f.ok THEN None
      ELSE IF f.v # 203 THEN Decode(f.v)
      ELSE With(Cpu_fetch(f.cpu, b), LAMBDA f2 :
             IF ~f2.ok THEN None
             ELSE [CBInstruction_from_byte(f2.v) EXCEPT !.cond = "CB"]))

\* One call of Cpu::step; frame.trace gets the instruction and the state it
\* started in.
InstStep ==
    /\ halted = "run"
    /\ Len(frame.trace) < MaxSteps
    /\ \E out \in {StepOutcome(cpu, bus, build, obs)} :
           /\ halted' = out.halted
           /\ cpu' = out.cpu
           /\ bus' = out.bus
           /\ obs' = out.obs
    /\ frame' = [trace |-> Append(frame.trace,
                     [inst |-> Fetched(cpu, bus), byte |-> Bus_load(bus, cpu.pc).v,
                      cpu |-> cpu, gpu |-> bus.gpu, timer |-> bus.timer])]
    /\ UNCHANGED build

InitInst ==
    /\ cpu = Cpu_new
    /\ \E image \in InstImages : bus = Bus_new(image)
    /\ build \in Builds
    /\ halted = "run"
    /\ obs = NoObs
    /\ frame = [trace |-> <<>>]

NextInst == InstStep

SpecInst == InitInst /\ [][NextInst]_vars

-----------------------------------------------------------------------------
(* The object attribute memory: stores of the processor and copies of a page *)

MaxOamOps == 3

\* All four bytes of the first and of the last object.
OamAddrs == {OAM_START + i : i \in {0, 1, 2, 3, 156, 157, 158, 159}}

\* Zero, each of the four attribute bits alone (16 is also the top line and
\* 32, 64, 128 positions on the screen), and all bits.
OamValues == {0, 16, 32, 64, 128, 255}

\* The cells of the work RAM page 0xC0 written before a copy, and the bytes.
PageAddrs == {RAM_START, RAM_START + 3, RAM_START + 157}
PageValues == {16, 255}

\* The pages copied: work RAM, the cartridge (all zero here), the OAM itself.
DmaPages == {192, 0, 254}

\* Bus::store8 to the OAM.
OamStore8 ==
    /\ halted = "run"
    /\ frame.n < MaxOamOps
    /\ \E addr \in OamAddrs, value \in OamValues :
         AfterStore("store8", addr, value, Bus_store(bus, addr, value))
    /\ frame' = [frame EXCEPT !.n = frame.n + 1]
    /\ UNCHANGED <<cpu, build>>

\* Bus::store8 to the work RAM.
PageStore8 ==
    /\ halted = "run"
    /\ frame.n < MaxOamOps
    /\ \E addr \in PageAddrs, value \in PageValues :
         AfterStore("store8", addr, value, Bus_store(bus, addr, value))
    /\ frame' = [frame EXCEPT !.n = frame.n + 1]
    /\ UNCHANGED <<cpu, build>>

\* Bus::store8 to 0xFF46.
OamDma ==
    /\ halted = "run"
    /\ frame.n < MaxOamOps
    /\ \E value \in DmaPages :
         AfterStore("store8", IO_DMA, value, Bus_store(bus, IO_DMA, value))
    /\ frame' = [frame EXCEPT !.n = frame.n + 1]
    /\ UNCHANGED <<cpu, build>>

InitOam ==
    /\ cpu = Cpu_new
    /\ bus = Bus_new(Empty)
    /\ frame = [n |-> 0]
    /\ build = "release"
    /\ halted = "run"
    /\ obs = NoBus

NextOam == OamStore8 \/ PageStore8 \/ OamDma

SpecOam == InitOam /\ [][NextOam]_vars

-----------------------------------------------------------------------------
(* The background: stores to the scroll registers and LCDC, then a build of
   the screen *)

MaxBgStores == 3

\* No scroll, one pixel, one pixel short of a tile, a tile, the scrolls around
\* which row 143 reaches the end of the 256 lines (112, 113), and the last.
ScrollValues == {0, 1, 7, 8, 112, 113, 255}

\* LCDC: the value of Gpu::new, the other tile map, the background off.
LcdcValues == {145, 153, 144}

\* The registers stored to and the values: SCX, SCY, LCDC, and the first entry
\* of the first tile map.
BgStores ==
    ({IO_SCX, IO_SCY} \X ScrollValues) \cup ({IO_LCDC} \X LcdcValues)
    \cup {<<VRAM_START + 6144, 255>>}

NoBuild == [op |-> "", panic |-> FALSE, reads |-> <<>>, lines |-> <<>>,
            writes |-> <<>>]

\* Bus::store8 to a register of the picture unit.
BgStore8 ==
    /\ halted = "run"
    /\ frame.n < MaxBgStores
    /\ \E s \in BgStores : bus' = Bus_store(bus, s[1], s[2]).bus
    /\ frame' = [n |-> frame.n + 1]
    /\ obs' = NoBuild
    /\ UNCHANGED <<cpu, build, halted>>

\* Gpu::build_screen, called by the host for a frame.
BgBuild ==
    /\ halted = "run"
    /\ obs.op = ""
    /\ obs' = With(Gpu_build_screen(bus.gpu), LAMBDA r :
                 [op |-> "build", panic |-> r.panic, reads |-> r.reads,
                  lines |-> r.lines, writes |-> r.writes])
    /\ halted' = IF Gpu_build_screen(bus.gpu).panic THEN "panic" ELSE "run"
    /\ UNCHANGED <<cpu, bus, build, frame>>

InitBg ==
    /\ cpu = Cpu_new
    /\ bus = Bus_new(Empty)
    /\ frame = [n |-> 0]
    /\ build = "release"
    /\ halted = "run"
    /\ obs = NoBuild

NextBg == BgStore8 \/ BgBuild

SpecBg == InitBg /\ [][NextBg]_vars

-----------------------------------------------------------------------------
(* The pending-interrupt register: a store of a byte to 0xFF0F, then a load *)

MaxIfOps == 4

NoIf == [op |-> "", value |-> 0, stored |-> 0, ok |-> TRUE]

\* Bus::store8(INT, v), any byte v.
IfStore8 ==
    /\ halted = "run"
    /\ frame.n < MaxIfOps
    /\ \E v \in 0..255 :
         /\ bus' = Bus_store(bus, INT, v).bus
         /\ obs' = [op |-> "store8", value |-> v, stored |-> v,
                    ok |-> Bus_store(bus, INT, v).ok]
    /\ frame' = [n |-> frame.n + 1]
    /\ UNCHANGED <<cpu, build, halted>>

\* Bus::load8(INT), right after the store.
IfLoad8 ==
    /\ halted = "run"
    /\ obs.op = "store8"
    /\ obs' = With(Bus_load(bus, INT), LAMBDA r :
                 [op |-> "load8", value |-> r.v, stored |-> obs.stored,
                  ok |-> r.ok])
    /\ UNCHANGED <<cpu, bus, build, halted, frame>>

InitIf ==
    /\ cpu = Cpu_new
    /\ bus = Bus_new(Empty)
    /\ frame = [n |-> 0]
    /\ build = "release"
    /\ halted = "run"
    /\ obs = NoIf

NextIf == IfStore8 \/ IfLoad8

SpecIf == InitIf /\ [][NextIf]_vars

-----------------------------------------------------------------------------
(* The arithmetic arms of Cpu::execute applied to every accumulator and
   operand *)

\* The operations applied, one a behaviour.
MaxAluOps == 1

AluBytes == 0..255
AluOps == {"SUB", "CMP"}

\* The flags before the operation: all clear (as constructed) or all set.
AluFlags == {[zero |-> x, subtract |-> x, half_carry |-> x, carry |-> x] : x \in BOOLEAN}

\* One arithmetic instruction with the operand value (SUB d8, CP d8, or the
\* register and (HL) forms once get_r8 has answered value).
AluApply ==
    /\ halted = "run"
    /\ frame.n < MaxAluOps
    /\ \E op \in AluOps, value \in AluBytes :
          /\ cpu' = [cpu EXCEPT !.regs = ALU_regs(op, cpu.regs, value)]
          /\ frame' = [n |-> frame.n + 1, op |-> op, value |-> value,
                        before |-> cpu.regs]
    /\ UNCHANGED <<bus, build, halted, obs>>

\* The accumulator rotates applied.
RotateOps == {"RLCA", "RRA"}

\* RLCA or RRA on the registers as they are.
AluRotate ==
    /\ halted = "run"
    /\ frame.n < MaxAluOps
    /\ \E op \in RotateOps :
          /\ cpu' = Cpu_execute(cpu, bus, I(op, "", "", "", 0)).cpu
          /\ frame' = [n |-> frame.n + 1, op |-> op, value |-> 0,
                        before |-> cpu.regs]
    /\ UNCHANGED <<bus, build, halted, obs>>

InitAlu ==
    /\ \E a \in AluBytes, f \in AluFlags :
          cpu = [Cpu_new EXCEPT !.regs.a = a, !.regs.f = f]
    /\ bus = Bus_new(Empty)
    /\ build = "release"
    /\ halted = "run"
    /\ obs = NoObs
    /\ frame = [n |-> 0, op |-> "", value |-> 0, before |-> Cpu_new.regs]

NextAlu == AluApply \/ AluRotate

SpecAlu == InitAlu /\ [][NextAlu]_vars

-----------------------------------------------------------------------------
(* Decimal arithmetic: ADD A,d8 on two packed decimal bytes, then DAA *)

\* The packed decimal bytes: both nibbles 0..9.
BCD == {(16 * hi) + lo : hi \in 0..9, lo \in 0..9}

\* ADD A,y for a packed decimal y.
BcdAdd ==
    /\ halted = "run"
    /\ frame.n = 0
    /\ \E y \in BCD :
          /\ cpu' = [cpu EXCEPT !.regs = ALU_regs("ADD", cpu.regs, y)]
          /\ frame' = [n |-> 1, x |-> cpu.regs.a, y |-> y]
    /\ UNCHANGED <<bus, build, halted, obs>>

\* DAA after the addition. The additions of DAA cannot overflow, so the build
\* makes no difference.
BcdDaa ==
    /\ halted = "run"
    /\ frame.n = 1
    /\ cpu' = Cpu_execute(cpu, bus, I("DAA", "", "", "", 0)).cpu
    /\ frame' = [frame EXCEPT !.n = 2]
    /\ UNCHANGED <<bus, build, halted, obs>>

InitBcd ==
    /\ \E x \in BCD : cpu = [Cpu_new EXCEPT !.regs.a = x]
    /\ bus = Bus_new(Empty)
    /\ build = "release"
    /\ halted = "run"
    /\ obs = NoObs
    /\ frame = [n |-> 0, x |-> 0, y |-> 0]

NextBcd == BcdAdd \/ BcdDaa

SpecBcd == InitBcd /\ [][NextBcd]_vars

-----------------------------------------------------------------------------
(* The picture unit's claims *)

\* C1: in every reachable state of the picture unit, whatever clocks
\* Gpu::update was called with and whatever was stored to LY (0xFF44), the
\* current line satisfies 0 <= LY <= 153.
C1_LineInRange == bus.gpu.line \in 0..153

\* The last line of the vertical blank is reached.
C1_Witness == bus.gpu.mode = "VBlank" /\ bus.gpu.line = 152

\* The accumulated clock at which a mode is left.
ModeClock(mode) ==
    CASE mode = "ScanlineOAM" -> 80
      [] mode = "ScanlineVRAM" -> 172
      [] mode = "HBlank" -> 204
      [] mode = "VBlank" -> 456

ModeEdges ==
    {<<"ScanlineOAM", "ScanlineVRAM">>, <<"ScanlineVRAM", "HBlank">>,
     <<"HBlank", "ScanlineOAM">>, <<"HBlank", "VBlank">>,
     <<"VBlank", "ScanlineOAM">>}

\* C2: the mode only changes along ScanlineOAM -> ScanlineVRAM -> HBlank ->
\* (ScanlineOAM | VBlank) and VBlank -> ScanlineOAM; a mode is left only when
\* the accumulator, with the clock just added, has reached 80, 172, 204, 456
\* for ScanlineOAM, ScanlineVRAM, HBlank, VBlank, and exactly that amount is
\* taken off the accumulator.
C2_ModeTransitions ==
    [][bus'.gpu.mode # bus.gpu.mode =>
         /\ <<bus.gpu.mode, bus'.gpu.mode>> \in ModeEdges
         /\ \E clock \in GpuClocks :
              /\ bus.gpu.clock + clock >= ModeClock(bus.gpu.mode)
              /\ bus'.gpu.clock = bus.gpu.clock + clock - ModeClock(bus.gpu.mode)]_vars

\* The unit draws line 143 a second time: every edge has been taken, the one
\* out of VBlank included.
C2_Witness ==
    bus.gpu.mode = "ScanlineVRAM" /\ bus.gpu.line = 143 /\ bus.gpu.is_interrupt

\* C3: Gpu::update sets the VBlank pending flag only on the transition from
\* HBlank with LY = 143 to VBlank; the end of HBlank with LY < 143 goes to
\* ScanlineOAM and raises nothing; LY grows by 1 in both cases; and when the
\* unit goes from VBlank back to ScanlineOAM, line 0, it has raised the flag
\* exactly once since it last did so (or since construction).
C3_RaisedOncePerFrame ==
    [][/\ (frame'.raises > frame.raises \/ (bus'.gpu.is_interrupt /\ ~bus.gpu.is_interrupt))
          => (bus.gpu.mode = "HBlank" /\ bus.gpu.line = 143
              /\ bus'.gpu.mode = "VBlank")
       /\ (bus.gpu.mode = "HBlank" /\ bus'.gpu.mode # "HBlank")
          => /\ bus.gpu.line <= 143
             /\ bus'.gpu.line = bus.gpu.line + 1
             /\ bus.gpu.line < 143
                => (bus'.gpu.mode = "ScanlineOAM" /\ frame'.raises = frame.raises)
             /\ bus.gpu.line = 143
                => (bus'.gpu.mode = "VBlank" /\ frame'.raises = frame.raises + 1
                    /\ bus'.gpu.is_interrupt)
       /\ frame'.returned
          => (bus'.gpu.mode = "ScanlineOAM" /\ bus'.gpu.line = 0
              /\ frame.raises = 1 /\ frame'.raises = 0)]_vars

\* The unit is back at line 0 from VBlank, with the flag it raised on the way.
C3_Witness ==
    frame.returned /\ bus.gpu.mode = "ScanlineOAM" /\ bus.gpu.line = 0
    /\ bus.gpu.is_interrupt

\* C4: from (ScanlineOAM, LY = 0, accumulator 0) and with no store to LY, the
\* unit is back in (ScanlineOAM, LY = 0) after exactly 70,224 cycles, LY having
\* taken every value 0..153, with exactly one raise of the VBlank flag.
C4_FrameIs70224 ==
    frame.returned =>
        /\ bus.gpu.mode = "ScanlineOAM" /\ bus.gpu.line = 0
        /\ frame.cycles - bus.gpu.clock = 70224
        /\ frame.lines = 0..153
        /\ frame.raises = 1

\* What the unit does instead: the frame is 153 lines, 69,768 cycles, and LY
\* stops at 152.
C4_Witness ==
    /\ frame.returned /\ bus.gpu.mode = "ScanlineOAM" /\ bus.gpu.line = 0
    /\ frame.cycles - bus.gpu.clock = 69768
    /\ frame.lines = 0..152
    /\ frame.raises = 1

\* C5: if step keeps being called and keeps answering Ok, the VBlank pending
\* flag is eventually raised, whatever the program, programs that store to LY
\* included.
C5_VBlankEventuallyRaised ==
    <>(halted # "run" \/ bus.gpu.is_interrupt \/ obs.raised)

\* The loop has stored to LY and runs on, the flag never raised.
C5_Witness ==
    /\ halted = "run" /\ obs.ok /\ obs.op = "JP" /\ obs.pc0 = 262
    /\ bus.gpu.line = 0 /\ bus.gpu.mode = "HBlank" /\ ~bus.gpu.is_interrupt

-----------------------------------------------------------------------------
(* The interrupt claims *)

\* C6: when a step starts with the interrupts enabled, IE bit 0 set, the
\* VBlank flag pending, PC = 0x0300 and SP = 0xFFFE, then at the end of that
\* step SP = 0xFFFC, the word pushed is 0x0300, PC = 0x0040, the interrupts are
\* disabled and the VBlank flag is clear.
C6_DispatchPushesStartPC ==
    (obs.ok /\ obs.ime0 = "IEnable" /\ obs.iev0 /\ obs.ifv0
     /\ obs.pc0 = 768 /\ obs.sp0 = 65534)
    => /\ cpu.sp = 65532
       /\ Bus_load16(bus, 65533).v = 768
       /\ cpu.pc = 64
       /\ cpu.interrupt_state = "IDisable"
       /\ ~bus.gpu.is_interrupt

\* What the step does with a NOP at 0x0300: the NOP runs first and the word
\* pushed is the PC after it.
C6_Witness ==
    /\ obs.ok /\ obs.ime0 = "IEnable" /\ obs.iev0 /\ obs.ifv0
    /\ obs.pc0 = 768 /\ obs.sp0 = 65534 /\ obs.op = "NOP"
    /\ obs.dispatched /\ cpu.sp = 65532 /\ cpu.pc = 64
    /\ Bus_load16(bus, 65533).v = obs.pc1 /\ obs.pc1 # 768

\* C7: whenever a step dispatches an interrupt, exactly 20 cycles for the
\* service go to the picture unit and the timer, on top of the instruction's.
C7_ServiceCosts20 == (obs.ok /\ obs.dispatched) => obs.clock2 = 20

\* A dispatch after a NOP: the service handed over the 16 cycles of RST.
C7_Witness ==
    /\ obs.ok /\ obs.dispatched /\ obs.op = "NOP" /\ obs.clock1 = 4
    /\ obs.clock2 = 16 /\ cpu.pc = 64

\* C8: with the interrupts enabled, IE bit 2 set, the timer flag pending and no
\* VBlank interrupt both pending and enabled, the step dispatches to 0x0050,
\* clears the timer flag, pushes PC and disables the interrupts.
C8_TimerInterruptServed ==
    (obs.ok /\ obs.ime0 = "IEnable" /\ obs.iet0 /\ obs.ift0
     /\ obs.ime1 = "IEnable" /\ obs.pendt1 /\ ~obs.pendv1)
    => /\ cpu.pc = 80
       /\ ~bus.timer.is_interrupt
       /\ cpu.sp = W16(obs.sp1 - 2)
       /\ cpu.interrupt_state = "IDisable"

\* The timer interrupt is pending and enabled through a whole step, and the
\* step just goes on to the next instruction.
C8_Witness ==
    /\ obs.ok /\ obs.ime0 = "IEnable" /\ obs.iet0 /\ obs.ift0
    /\ obs.ime1 = "IEnable" /\ obs.pendt1 /\ ~obs.pendv1 /\ obs.op = "NOP"
    /\ ~obs.dispatched /\ cpu.pc = obs.pc1 /\ cpu.sp = obs.sp1
    /\ bus.timer.is_interrupt /\ cpu.interrupt_state = "IEnable"

\* The interrupts count as enabled going into the interrupt pass when the
\* state is IEnable, or when a DI has just run with them enabled (it takes
\* effect after this step).
EnabledForPass ==
    obs.ime1 = "IEnable" \/ (obs.ime1 = "IDisableNext" /\ obs.ime0 = "IEnable")

\* C9: an interrupt is dispatched only when the interrupts are enabled and an
\* enabled interrupt is pending: in a step where, after the instruction, they
\* are disabled or no enabled interrupt is pending, the interrupt pass changes
\* neither PC, SP, memory, IF nor the interrupt state, and hands over no
\* cycles.
C9_PassWithoutDispatchChangesNothing ==
    (obs.ok /\ (~EnabledForPass \/ ~(obs.pendv1 \/ obs.pendt1)))
    => (~obs.dispatched /\ obs.clock2 = 0 /\ obs.kept /\ obs.kept_timer)

\* DI ran with the interrupts already disabled, and the pass of that step
\* dispatched the pending VBlank interrupt.
C9_Witness ==
    /\ obs.ok /\ obs.op = "DI" /\ obs.ime0 = "IDisable"
    /\ obs.ime1 = "IDisableNext" /\ obs.pendv1
    /\ obs.dispatched /\ obs.clock2 = 16 /\ cpu.pc = 64 /\ cpu.sp = W16(obs.sp1 - 2)

\* C10: the step that executes EI with the interrupts disabled dispatches
\* nothing, whatever is pending, and leaves them enabled; the step after it
\* can dispatch, and does so after its own instruction: the word it pushes is
\* the PC that instruction left (the stack being in high RAM).
C10_EIDelayedByOne ==
    /\ (obs.op = "EI" /\ obs.ime0 = "IDisable" /\ ~obs.died)
       => (~obs.dispatched /\ obs.clock2 = 0
           /\ (obs.ok => cpu.interrupt_state = "IEnable"))
    /\ (obs.prev_op = "EI" /\ obs.prev_ime0 = "IDisable" /\ obs.dispatched
        /\ obs.sp1 > HRAM_START /\ obs.sp1 <= HRAM_END)
       => (obs.pushed = obs.pc1 /\ cpu.pc = 64 /\ obs.pc1 # obs.pc0)

\* EI ran with VBlank pending and enabled and dispatched nothing; the NOP after
\* it ran, and then the interrupt was dispatched.
C10_Witness ==
    /\ obs.prev_op = "EI" /\ obs.prev_ime0 = "IDisable" /\ obs.op = "NOP"
    /\ obs.iev0 /\ obs.ifv0 /\ obs.ime0 = "IEnable"
    /\ obs.dispatched /\ obs.pushed = obs.pc1 /\ cpu.pc = 64

\* C11: after the step that executes DI with the interrupts enabled (and
\* dispatches nothing), the state is not yet IDisable but the deferred
\* IDisableNext; it becomes IDisable only when the instruction following DI has
\* completed.
C11_DIDelayedByOne ==
    /\ (obs.ok /\ obs.op = "DI" /\ obs.ime0 = "IEnable" /\ ~obs.dispatched)
       => cpu.interrupt_state = "IDisableNext"
    /\ (obs.ok /\ obs.prev_op = "DI" /\ obs.prev_ime0 = "IEnable"
        /\ obs.op \notin {"EI", "RETI"})
       => cpu.interrupt_state = "IDisable"

\* What the step does: the instruction following DI (DI dispatched nothing,
\* the program went on) already starts with the interrupts disabled.
C11_Witness ==
    /\ obs.ok /\ obs.op = "NOP" /\ obs.prev_op = "DI" /\ obs.prev_ime0 = "IEnable"
    /\ obs.pc0 > 766 /\ obs.ime0 = "IDisable" /\ ~obs.dispatched
    /\ cpu.interrupt_state = "IDisable"

\* C12: the step that executes DI, after an EI or after anything else, ends
\* with the interrupts disabled, and a step that starts with them disabled ends
\* with them disabled unless it executes EI or RETI.
C12_EIThenDILeavesDisabled ==
    /\ (obs.ok /\ obs.op = "DI") => cpu.interrupt_state = "IDisable"
    /\ (obs.ok /\ obs.ime0 = "IDisable" /\ obs.op \notin {"EI", "RETI"})
       => cpu.interrupt_state = "IDisable"

\* EI ran with the interrupts disabled, DI ran right after it with them
\* enabled, and they are disabled.
C12_Witness ==
    /\ obs.ok /\ obs.op = "DI" /\ obs.prev_op = "EI" /\ obs.prev_ime0 = "IDisable"
    /\ obs.ime0 = "IEnable" /\ ~obs.dispatched
    /\ cpu.interrupt_state = "IDisable"

\* C13: the step that executes RETI takes PC from the word on top of the
\* stack, adds 2 to SP and has the interrupts enabled at once: an enabled
\* pending VBlank interrupt is dispatched in the interrupt pass of that very
\* step, the return address being what it pushes.
C13_RETIEnablesAtOnce ==
    (obs.ok /\ obs.op = "RETI")
    => /\ obs.pc1 = obs.top0
       /\ obs.sp1 = W16(obs.sp0 + 2)
       /\ obs.ime1 = "IEnable"
       /\ obs.pendv1 => (obs.dispatched /\ cpu.pc = 64 /\ obs.pushed = obs.pc1
                         /\ cpu.interrupt_state = "IDisable")

\* RETI ran with the interrupts disabled and VBlank pending and enabled, and
\* its own step dispatched.
C13_Witness ==
    /\ obs.ok /\ obs.op = "RETI" /\ obs.ime0 = "IDisable" /\ obs.pendv1
    /\ obs.pc0 = 528 /\ obs.dispatched /\ cpu.pc = 64 /\ obs.sp1 = 65534

-----------------------------------------------------------------------------
(* The timer claims *)

\* C16: as long as nothing was stored to DIV, after any calls of Timer::update
\* totalling N cycles since construction, each with at most one instruction's
\* clock, the byte loaded from 0xFF04 is floor(N / 256) mod 256.
C16_DivIsCyclesOver256 ==
    ~frame.wrote
    => Bus_load(bus, TIMER_START) = [ok |-> TRUE, v |-> (frame.cycles \div 256) % 256]

\* DIV has gone round once: 65,536 cycles and more, and it reads 0 again.
C16_Witness ==
    /\ ~frame.wrote /\ frame.cycles >= 65536 /\ frame.cycles % 256 = 255
    /\ bus.timer.div = 0 /\ bus.timer.div_counter = 255

\* C17: after a store of any value to 0xFF04, DIV reads 0 and is next
\* incremented exactly when 256 further cycles have accumulated, whatever the
\* accumulator held: with N the cycles since the store, DIV reads
\* floor(N / 256) mod 256.
C17_DivStoreZeroesAccumulator ==
    frame.wrote
    => Bus_load(bus, TIMER_START) = [ok |-> TRUE, v |-> (frame.cycles \div 256) % 256]

\* What the store leaves: DIV is incremented 8 cycles after it, the
\* accumulator having kept what it held.
C17_Witness ==
    /\ frame.wrote /\ frame.cycles = 8 /\ bus.timer.div = 1
    /\ bus.timer.div_counter < 8

\* The cycles per tick the spec gives for TAC bits 1-0.
Threshold(scale) ==
    CASE scale = 0 -> 1024 [] scale = 1 -> 16 [] scale = 2 -> 64 [] scale = 3 -> 256

\* The call of Timer::update just made found TAC bit 2 set and brought the
\* accumulator to the threshold TAC bits 1-0 select.
Crossed ==
    /\ obs.op = "update"
    /\ Bit(Timer_load(obs.before, 65287), 2) = 1
    /\ obs.before.timer_counter + obs.clock
         >= Threshold(Timer_load(obs.before, 65287) % 4)

\* C14: a TIMA increment from 0xFF reloads TIMA from TMA and raises the timer
\* flag of IF: when Timer::update ticks with TIMA = 0xFF, TIMA is TMA afterwards
\* (0x42 in the spec's example, at 1024 cycles per tick) and IF bit 2 is set.
C14_TimaOverflowReloads ==
    (Crossed /\ obs.before.tima = 255)
    => /\ bus.timer.tima = obs.before.tma
       /\ bus.timer.is_interrupt
       /\ Bit(Bus_load(bus, INT).v, TIMER_SHIFT) = 1

\* What the tick does in the spec's example (TAC = 4, TIMA = 0xFF, TMA = 0x42,
\* 1024 cycles): TIMA stays 0xFF, TMA becomes 0x43, no flag.
C14_Witness ==
    /\ Crossed /\ Timer_load(obs.before, 65287) = 4
    /\ obs.before.tima = 255 /\ obs.before.tma = 66
    /\ bus.timer.tima = 255 /\ bus.timer.tma = 67
    /\ ~bus.timer.is_interrupt /\ Bus_load(bus, INT).v = 0

\* C15: a call of Timer::update adds one to TIMA when TAC bit 2 is set and the
\* accumulator reaches the threshold of TAC bits 1-0 (1024, 16, 64, 256), and
\* leaves TIMA alone otherwise, in particular whenever TAC bit 2 is clear.
C15_TimaCounts ==
    obs.op = "update"
    => IF Crossed
       THEN obs.before.tima # 255 => bus.timer.tima = obs.before.tima + 1
       ELSE bus.timer.tima = obs.before.tima

\* What a tick does: TIMA is left at 0 and TMA is incremented instead.
C15_Witness ==
    /\ Crossed /\ Timer_load(obs.before, 65287) = 5
    /\ obs.before.tima = 0 /\ bus.timer.tima = 0
    /\ bus.timer.tma = W8(obs.before.tma + 1)

-----------------------------------------------------------------------------
(* The bus's claims *)

\* The byte the image holds at an offset, 0 past its end.
ImageByte(image, a) == IF a < Len(image) THEN image[a + 1] ELSE 0

\* The cartridge addresses looked at: the first ones and the last one.
CartAddrs == {0, 1, 2, 3, CATRIDGE_END}

\* C18: whatever was stored, to the cartridge region or elsewhere, a load of a
\* cartridge address answers the byte of the supplied image at that offset,
\* or 0 past the image's end; and a store to a cartridge address succeeds and
\* leaves the whole bus as it was.
C18_CartridgeIsImmutableView ==
    /\ \A a \in CartAddrs :
         Bus_load(bus, a) = [ok |-> TRUE, v |-> ImageByte(frame.image, a)]
    /\ (obs.op = "store8" /\ InRange(obs.addr, CATRIDGE_START, CATRIDGE_END))
         => (obs.ok /\ ~obs.panic /\ bus = obs.before)

\* C18's case: 18 was stored to address 0 of an image that holds 90 there,
\* after an earlier store, and a load of address 0 still answers 90.
C18_Witness ==
    /\ obs.op = "store8" /\ obs.addr = 0 /\ obs.value = 18
    /\ frame.n >= 2
    /\ Len(frame.image) = 2 /\ frame.image[1] = 90
    /\ Bus_load(bus, 0).v = 90 /\ Bus_load(bus, 2).v = 0

\* An address of a read-write region: VRAM, work RAM, OAM, high RAM.
ReadWrite(a) ==
    \/ InRange(a, VRAM_START, VRAM_END)
    \/ InRange(a, RAM_START, RAM_END)
    \/ InRange(a, OAM_START, OAM_END)
    \/ InRange(a, HRAM_START, HRAM_END)

\* C19: after store16(addr, v) with addr and addr+1 in a read-write region,
\* the store succeeded, load16(addr) answers v, load8(addr) answers v mod 256
\* and load8(addr+1) answers v div 256.
C19_Store16Load16RoundTrip ==
    (obs.op = "store16" /\ ReadWrite(obs.addr) /\ ReadWrite(obs.addr + 1))
    => /\ obs.ok /\ ~obs.panic
       /\ Bus_load16(bus, obs.addr) =
            [ok |-> TRUE, v |-> obs.value, ovf |-> FALSE]
       /\ Bus_load(bus, obs.addr) = [ok |-> TRUE, v |-> obs.value % 256]
       /\ Bus_load(bus, obs.addr + 1) =
            [ok |-> TRUE, v |-> obs.value \div 256]

\* C19's case: 0x1234 was stored to the last two bytes of the high RAM and
\* read back, 0x34 at the lower address.
C19_Witness ==
    /\ obs.op = "store16" /\ obs.addr = HRAM_END - 1 /\ obs.value = 4660
    /\ obs.ok
    /\ Bus_load16(bus, obs.addr).v = 4660
    /\ Bus_load(bus, obs.addr).v = 52 /\ Bus_load(bus, HRAM_END).v = 18

\* C20: after a byte v was stored to 0xFF46, the store succeeded, every OAM
\* byte i in 0..159 is the byte load8(v*256 + i) answered before the store,
\* and nothing but the OAM and the sprite records decoded from it differs from
\* the bus before the store.
C20_DmaCopiesPage ==
    (obs.op = "store8" /\ obs.addr = IO_DMA)
    => /\ obs.ok /\ ~obs.panic
       /\ \A i \in 0..159 :
            /\ Bus_load(obs.before, obs.value * 256 + i).ok
            /\ Bus_load(bus, OAM_START + i) =
                 Bus_load(obs.before, obs.value * 256 + i)
       /\ bus = [obs.before EXCEPT !.gpu.oam = bus.gpu.oam,
                                   !.gpu.sprite = bus.gpu.sprite]

\* C20's case: 0xA0 was stored to 0xFF46; no load of 0xA000..0xA09F succeeds
\* and the copy panics.
C20_Witness ==
    /\ obs.op = "store8" /\ obs.addr = IO_DMA /\ obs.value = 160
    /\ ~Bus_load(obs.before, 40960).ok
    /\ obs.panic /\ halted = "panic"

\* The copy where its source is loadable: after 0xC0 was stored to 0xFF46 with
\* 18 at 0xC000, OAM byte 0 is 18 and the store succeeded.
C20_WitnessCopied ==
    /\ obs.op = "store8" /\ obs.addr = IO_DMA /\ obs.value = 192
    /\ Bus_load(obs.before, RAM_START).v = 18
    /\ obs.ok /\ Bus_load(bus, OAM_START).v = 18

-----------------------------------------------------------------------------
(* The address map's claims *)

\* C21: a load of any address of the sound range 0xFF10-0xFF3F answers Ok(0),
\* and a store to it answers Ok and leaves the bus as it was.
C21_SoundRegistersInert ==
    (obs.op \in {"load8", "store8"} /\ obs.addr \in SOUND)
    => /\ obs.ok /\ ~obs.panic
       /\ bus = obs.before
       /\ obs.op = "load8" => obs.value = 0

\* C21's case: a load of 0xFF15, which enum IO does not name, fails.
C21_Witness ==
    /\ obs.op = "load8" /\ obs.addr = 65301
    /\ ~obs.ok

\* The sound registers enum IO names are inert: after a store of 165 to 0xFF10
\* a load of it answers Ok(0).
C21_WitnessNamed ==
    /\ obs.op = "load8" /\ obs.addr = 65296 /\ obs.ok /\ obs.value = 0
    /\ frame.n = 2

\* C22: every load8 and every store8, whatever the address, succeeds.
C22_NoAccessError ==
    (obs.op \in {"load8", "store8"}) => (obs.ok /\ ~obs.panic)

\* C22's case: a store to 0xA000, which no range of the map covers, fails.
C22_Witness ==
    /\ obs.op = "store8" /\ obs.addr = 40960
    /\ ~obs.ok

-----------------------------------------------------------------------------
(* The joypad's claims *)

\* The keys of the two rows, bit 0 first.
DirectionRow == <<"RIGHT", "LEFT", "UP", "DOWN">>
ActionRow == <<"A", "B", "SELECT", "START">>

\* The nibble of a row: bit i is 0 exactly when the row's key i is pressed.
RowNibble(row, pressed) ==
    (IF row[1] \in pressed THEN 0 ELSE 1) + (IF row[2] \in pressed THEN 0 ELSE 2)
    + (IF row[3] \in pressed THEN 0 ELSE 4) + (IF row[4] \in pressed THEN 0 ELSE 8)

\* What a load of 0xFF00 answers when the byte m was stored to it last.
ReadWith(j, m) == Joypad_load([j EXCEPT !.mask = m])

\* C25: after any key events and stores to 0xFF00, a load of 0xFF00 answers,
\* with the direction row selected (0x20 stored last), the nibble whose bits
\* 0..3 are 0 exactly for those of Right, Left, Up, Down pressed last; with
\* the action row selected (0x10), the same for A, B, Select, Start; 0x0F with
\* no row selected (0x30, and at reset); and an event on a key of one row
\* leaves what the other row reads as it was.
C25_JoypadReadsSelectedRow ==
    /\ Bus_load(bus, JOYPAD_ADDR) =
         [ok |-> TRUE,
          v |-> CASE bus.joypad.mask = 32 -> RowNibble(DirectionRow, frame.pressed)
                  [] bus.joypad.mask = 16 -> RowNibble(ActionRow, frame.pressed)
                  [] OTHER -> 15]
    /\ ReadWith(bus.joypad, 32) = RowNibble(DirectionRow, frame.pressed)
    /\ ReadWith(bus.joypad, 16) = RowNibble(ActionRow, frame.pressed)
    /\ (obs.op \in {"press", "release"} /\ obs.key \in {"A", "B", "SELECT", "START"})
         => ReadWith(bus.joypad, 32) = ReadWith(obs.before, 32)
    /\ (obs.op \in {"press", "release"} /\ obs.key \in {"RIGHT", "LEFT", "UP", "DOWN"})
         => ReadWith(bus.joypad, 16) = ReadWith(obs.before, 16)

\* C25's case: Left and Start are held and A was pressed just now; the
\* direction row is selected and reads 0x0D, the action row would read 0x06.
C25_Witness ==
    /\ frame.pressed = {"LEFT", "START", "A"}
    /\ obs.op = "press" /\ obs.key = "A"
    /\ bus.joypad.mask = 32
    /\ Bus_load(bus, JOYPAD_ADDR).v = 13
    /\ ReadWith(bus.joypad, 16) = 6

-----------------------------------------------------------------------------
(* The claims about single instructions *)

\* The step run last: the instruction and the state it started in.
Last == frame.trace[Len(frame.trace)]

\* A step was run and returned (it did not panic).
Returned == Len(frame.trace) > 0 /\ halted # "panic"

\* The addresses a step that starts in the state s can touch: the bytes of
\* the instruction, the cells the pairs, SP and the operand point at, and the
\* I/O page at the operand byte and at C.
Touched(s) ==
    LET pc == s.cpu.pc
        w == Bus_load16(bus, W16(pc + 1)).v
    IN  {W16(pc + i) : i \in 0..3}
        \cup {get_hl(s.cpu.regs), get_bc(s.cpu.regs), get_de(s.cpu.regs)}
        \cup {W16(s.cpu.sp + i) : i \in {-2, -1, 0, 1, 2}}
        \cup {W16(cpu.sp + i) : i \in {-2, -1, 0, 1, 2}}
        \cup {w, W16(w + 1), 65280 + (w % 256), 65280 + s.cpu.regs.c}

NoneUnmapped(s) == \A a \in Touched(s) : Bus_load(bus, a).ok

\* C23, the first half: a step whose opcode byte is not 0xCB and not in the
\* primary table returns Err; a step returns Err only then or when an address
\* it touches is not mapped; so a step that starts with 0xCB and touches
\* mapped addresses only returns Ok, whatever the second byte.
C23_ErrOnlyOnUnknownOpcode ==
    Returned =>
       /\ (Last.byte # 203 /\ Decode(Last.byte) = None) => halted = "err"
       /\ halted = "err" =>
            \/ (Last.byte # 203 /\ Decode(Last.byte) = None)
            \/ ~NoneUnmapped(Last)
       /\ (Last.byte = 203 /\ NoneUnmapped(Last)) => halted = "run"

\* C23: the first half, and after a step that returned Err the picture unit
\* and the timer are as they were before the step (no cycles reached them).
C23_StepErr ==
    /\ C23_ErrOnlyOnUnknownOpcode
    /\ (Returned /\ halted = "err")
         => (bus.gpu = Last.gpu /\ bus.timer = Last.timer)

\* C23's case: with SP = 0xA001 and the vertical blank interrupt pending, the
\* NOP after EI ran and its 4 cycles reached the picture unit and the timer;
\* then the push of the interrupt pass failed and the step returned Err.
C23_Witness ==
    /\ halted = "err"
    /\ Len(frame.trace) > 0
    /\ Last.inst.op = "NOP" /\ Last.cpu.sp = 40961
    /\ bus.gpu.clock = Last.gpu.clock + 4
    /\ bus.timer.div_counter = Last.timer.div_counter + 4

\* A step that started with 0xCB returned Ok: SWAP (HL) (0xCB 0x36) with HL in
\* the work RAM.
C23_WitnessCB ==
    /\ halted = "run" /\ Len(frame.trace) > 0
    /\ Last.byte = 203 /\ Last.inst.op = "SWAP" /\ Last.inst.t = "HL"
    /\ get_hl(cpu.regs) = 49152

\* The processor after the i-th step of the trace, and whether that step
\* returned Ok.
After(i) == IF i < Len(frame.trace) THEN frame.trace[i + 1].cpu ELSE cpu
Completed(i) == i < Len(frame.trace) \/ halted = "run"

\* The pair a PUSH reads and a POP writes.
Pair(c, rr) ==
    CASE rr = "BC" -> get_bc(c.regs)
      [] rr = "DE" -> get_de(c.regs)
      [] rr = "HL" -> get_hl(c.regs)
      [] rr = "AF" -> get_af(c.regs)

IsOp(i, op) == i \in 1..Len(frame.trace) /\ frame.trace[i].inst.op = op

\* The two cells a PUSH from the state c writes are in the work RAM or in the
\* high RAM.
StackInRam(c) ==
    \A a \in {c.sp - 1, c.sp} :
        \/ a \in RAM_START..RAM_END
        \/ a \in HRAM_START..HRAM_END

\* What C26 says of the steps i.. of the trace, given that the step i is a
\* PUSH: the PUSH returns Ok with SP two lower; a POP after it returns Ok with
\* SP two higher; PUSH rr ; POP rr leaves rr and SP as they were (for AF: A and
\* the four flags, the low nibble of F zero); PUSH x ; PUSH y ; POP p ; POP q
\* leaves the value of y in p, the value of x in q, and SP as it was. SP is
\* counted modulo 2^16.
PushPop(i) ==
    LET s == frame.trace[i]
    IN  /\ Completed(i) /\ After(i).sp = W16(s.cpu.sp - 2)
        /\ IsOp(i + 1, "POP") =>
              /\ Completed(i + 1) /\ After(i + 1).sp = s.cpu.sp
              /\ frame.trace[i + 1].inst.t = s.inst.t =>
                    /\ Pair(After(i + 1), s.inst.t) = Pair(s.cpu, s.inst.t)
                    /\ get_af(After(i + 1).regs) % 16 = 0
        /\ (IsOp(i + 1, "PUSH") /\ IsOp(i + 2, "POP") /\ IsOp(i + 3, "POP")) =>
              /\ Completed(i + 3) /\ After(i + 3).sp = s.cpu.sp
              /\ Pair(After(i + 3), frame.trace[i + 2].inst.t)
                   = Pair(frame.trace[i + 1].cpu, frame.trace[i + 1].inst.t)
              /\ Pair(After(i + 3), frame.trace[i + 3].inst.t)
                   = Pair(s.cpu, s.inst.t)

\* C26 as the specification states it: PushPop for every PUSH, wherever SP
\* points.
C26_PushPopAnywhere ==
    \A i \in 1..Len(frame.trace) : IsOp(i, "PUSH") => PushPop(i)

\* C26, for a stack in read-write memory: PushPop for every PUSH whose two
\* cells are in the work RAM or in the high RAM.
C26_PushPopRoundTrip ==
    \A i \in 1..Len(frame.trace) :
        (IsOp(i, "PUSH") /\ StackInRam(frame.trace[i].cpu)) => PushPop(i)

\* C26's case: PUSH BC is the first instruction after construction, where SP
\* is 0; the subtraction sp - 1 overflows and the debug build panics.
C26_Witness ==
    /\ halted = "panic" /\ build = "debug"
    /\ Len(frame.trace) = 1
    /\ Last.inst.op = "PUSH" /\ Last.inst.t = "BC" /\ Last.cpu.sp = 0

\* PUSH BC ; POP AF ; PUSH AF ; POP AF ran with the stack below 0xFFFE and
\* BC = 0x00FF: the last POP left A = 0 and F = 0xF0.
C26_WitnessRam ==
    /\ halted = "run" /\ Len(frame.trace) >= 5
    /\ IsOp(Len(frame.trace) - 1, "PUSH") /\ IsOp(Len(frame.trace), "POP")
    /\ Last.inst.t = "AF" /\ Last.cpu.sp = 65532
    /\ get_bc(cpu.regs) = 255 /\ get_af(cpu.regs) = 240 /\ cpu.sp = 65534

Signed8(v) == IF v < 128 THEN v ELSE v - 256

\* C28: after a taken JR, PC is the address of the JR plus 2 plus the signed
\* operand, modulo 2^16; the JR at 0x0200 with operand 5 leaves PC = 0x0207.
C28_JRTarget ==
    \A i \in 1..Len(frame.trace) :
        LET s == frame.trace[i]
        IN  (IsOp(i, "JR") /\ check_condition(s.cpu, s.inst.cond))
            => /\ Completed(i)
               /\ After(i).pc
                    = W16(s.cpu.pc + 2 + Signed8(Bus_load(bus, W16(s.cpu.pc + 1)).v))

\* C28's case: JR +5 (18 05) at 0x0200 has run and PC is 0x0208.
C28_Witness ==
    /\ halted = "run" /\ Len(frame.trace) > 0
    /\ Last.inst.op = "JR" /\ Last.inst.cond = "Always"
    /\ Last.cpu.pc = 512 /\ Bus_load(bus, 513).v = 5
    /\ cpu.pc = 520

\* The operations that set PC themselves when they act.
Branching(s) ==
    \/ s.inst.op \in {"RETI", "RST", "JPHL"}
    \/ s.inst.op \in {"JP", "JR", "CALL", "RET"} /\ check_condition(s.cpu, s.inst.cond)

\* The last step decoded an instruction of the primary table, returned Ok and
\* dispatched no interrupt.
PlainStep ==
    /\ halted = "run" /\ Len(frame.trace) > 0
    /\ Last.byte # 203 /\ Last.inst # None
    /\ ~obs.dispatched

\* C29: a step that runs a primary instruction which does not branch (or a
\* conditional branch whose condition is false) and dispatches no interrupt
\* leaves PC higher by the instruction's length, the opcode included.
C29_PCAdvancesByLength ==
    (PlainStep /\ ~Branching(Last))
        => /\ Len_of(Last.inst) \in 1..3
           /\ cpu.pc = W16(Last.cpu.pc + Len_of(Last.inst))

\* C29's case: NOP (length 1) at 0x0100 has run and PC is 0x0102.
C29_Witness ==
    /\ PlainStep /\ ~Branching(Last)
    /\ Last.inst.op = "NOP" /\ Len_of(Last.inst) = 1
    /\ Last.cpu.pc = 256 /\ cpu.pc = 258

-----------------------------------------------------------------------------
(* The claims about the arithmetic *)

\* C30: after SUB value, A is (A - value) mod 256, Z says A is 0, N is set,
\* H says the low nibble of A was below the low nibble of value, C says A was
\* below value.
C30_SubFlags ==
    (frame.n > 0 /\ frame.op = "SUB") =>
        LET a == frame.before.a
            v == frame.value
        IN  /\ cpu.regs.a = (a - v) % 256
            /\ cpu.regs.f.zero = (cpu.regs.a = 0)
            /\ cpu.regs.f.subtract
            /\ cpu.regs.f.half_carry = ((a % 16) < (v % 16))
            /\ cpu.regs.f.carry = (a < v)

\* C30's case: A = 0x10, SUB 0x01 has run: A = 0x0F, Z = 0, N = 1, and the
\* code leaves H = 0 and C = 1.
C30_Witness ==
    /\ frame.n > 0 /\ frame.op = "SUB"
    /\ frame.before.a = 16 /\ frame.value = 1
    /\ cpu.regs.a = 15
    /\ ~cpu.regs.f.zero /\ cpu.regs.f.subtract
    /\ ~cpu.regs.f.half_carry /\ cpu.regs.f.carry

-----------------------------------------------------------------------------
(* The sprite records' claims *)

\* The record s with the field k (0 y, 1 x, 2 tile, 3 attributes) as the
\* specification decodes it from the byte raw.
WithField(s, k, raw) ==
    CASE k = 0 -> [s EXCEPT !.y = raw - 16]
      [] k = 1 -> [s EXCEPT !.x = raw - 8]
      [] k = 2 -> [s EXCEPT !.tile_idx = raw]
      [] k = 3 -> [s EXCEPT !.priority = (raw \div 128) % 2 = 1,
                            !.flip_y = (raw \div 64) % 2 = 1,
                            !.flip_x = (raw \div 32) % 2 = 1,
                            !.palette_number = (raw \div 16) % 2 = 1]

\* C24: after a store of a byte to the OAM address a, the record
\* (a-0xFE00)/4 is what it was with the field (a-0xFE00) mod 4 decoded from
\* the byte, and every other record is what it was; after a copy of a page to
\* the OAM every field of every record is decoded from the byte copied to it.
C24_OamStoreUpdatesSprite ==
    /\ (obs.op = "store8" /\ obs.addr \in OAM_START..OAM_END) =>
          /\ obs.ok
          /\ \A idx \in 0..39 :
                Sprite_at(bus.gpu, idx) =
                  IF idx = (obs.addr - OAM_START) \div 4
                  THEN WithField(Sprite_at(obs.before.gpu, idx),
                                 (obs.addr - OAM_START) % 4, obs.value)
                  ELSE Sprite_at(obs.before.gpu, idx)
    /\ (obs.op = "store8" /\ obs.addr = IO_DMA /\ obs.ok) =>
          \A idx \in 0..39 : \A k \in 0..3 :
              Sprite_at(bus.gpu, idx) =
                WithField(Sprite_at(bus.gpu, idx), k,
                          Bus_load(obs.before, obs.value * 256 + (4 * idx) + k).v)

\* C24's case, a store of the processor: 0xFF was stored to 0xFE9F, byte 3 of
\* object 39, whose y was -16 + 32 from an earlier store; the four attribute
\* bits are set and y is still 16.
C24_Witness ==
    /\ obs.op = "store8" /\ obs.addr = OAM_END /\ obs.value = 255 /\ obs.ok
    /\ Sprite_at(obs.before.gpu, 39).y = 16
    /\ ~Sprite_at(obs.before.gpu, 39).priority
    /\ Sprite_at(bus.gpu, 39).y = 16
    /\ Sprite_at(bus.gpu, 39).priority /\ Sprite_at(bus.gpu, 39).flip_y
    /\ Sprite_at(bus.gpu, 39).flip_x /\ Sprite_at(bus.gpu, 39).palette_number
    /\ Sprite_at(bus.gpu, 0) = Sprite_default

\* C24's case, a copy: page 0xC0 with 16 at 0xC000 and 255 at 0xC09D was
\* copied; object 0 has y = 0 and x = -8, object 39 has x = 247.
C24_WitnessDma ==
    /\ obs.op = "store8" /\ obs.addr = IO_DMA /\ obs.value = 192 /\ obs.ok
    /\ Bus_load(obs.before, RAM_START).v = 16
    /\ Bus_load(obs.before, RAM_START + 157).v = 255
    /\ Sprite_at(bus.gpu, 0).y = 0 /\ Sprite_at(bus.gpu, 0).x = -8
    /\ Sprite_at(bus.gpu, 39).x = 247 /\ Sprite_at(bus.gpu, 39).y = -16

\* C31: after CP value, A is what it was and Z, N, H, C are what SUB value
\* leaves from the same registers.
C31_CpLikeSub ==
    (frame.n > 0 /\ frame.op = "CMP") =>
        /\ cpu.regs.a = frame.before.a
        /\ cpu.regs.f = ALU_regs("SUB", frame.before, frame.value).f

\* C31's case: A = 0x42, CP 0x41 has run: A is 0x42 and C is clear, where SUB
\* 0x41 from the same registers sets C.
C31_Witness ==
    /\ frame.n > 0 /\ frame.op = "CMP"
    /\ frame.before.a = 66 /\ frame.value = 65
    /\ cpu.regs.a = 66 /\ ~cpu.regs.f.carry
    /\ ALU_regs("SUB", frame.before, frame.value).f.carry

\* The specification's example: A = 0x42, CP 0x42 has run: A unchanged, Z = 1,
\* N = 1, H = 0, C = 0.
C31_WitnessEqual ==
    /\ frame.n > 0 /\ frame.op = "CMP"
    /\ frame.before.a = 66 /\ frame.value = 66
    /\ cpu.regs.a = 66 /\ cpu.regs.f.zero /\ cpu.regs.f.subtract
    /\ ~cpu.regs.f.half_carry /\ ~cpu.regs.f.carry

\* C32: after RLCA or RRA, Z, N and H are clear and C is the bit rotated out
\* (bit 7 of A for RLCA, bit 0 for RRA), whatever A was.
C32_RotateAFlags ==
    (frame.n > 0 /\ frame.op \in RotateOps) =>
        /\ ~cpu.regs.f.zero /\ ~cpu.regs.f.subtract /\ ~cpu.regs.f.half_carry
        /\ cpu.regs.f.carry = (IF frame.op = "RLCA" THEN frame.before.a \div 128 = 1
                                                     ELSE frame.before.a % 2 = 1)

\* C32's case: RLCA has run with A = 0: A is 0, C is clear and Z is set.
C32_Witness ==
    /\ frame.n > 0 /\ frame.op = "RLCA" /\ frame.before.a = 0
    /\ cpu.regs.a = 0 /\ ~cpu.regs.f.carry /\ cpu.regs.f.zero

\* RRA has run with A = 0 and C clear: the result is 0 and Z is clear.
C32_WitnessRRA ==
    /\ frame.n > 0 /\ frame.op = "RRA" /\ frame.before.a = 0
    /\ ~frame.before.f.carry
    /\ cpu.regs.a = 0 /\ ~cpu.regs.f.zero /\ ~cpu.regs.f.carry

\* The number a packed decimal byte stands for, and the byte of a number.
FromBcd(b) == (10 * (b \div 16)) + (b % 16)
ToBcd(n) == (16 * (n \div 10)) + (n % 10)

\* C33: after ADD A,y with A = x and then DAA, for packed decimal x and y, A
\* is the packed decimal byte of (x + y) mod 100, C is set exactly when the
\* sum is 100 or more, and Z exactly when A is 0.
C33_DaaAdjustsSum ==
    frame.n = 2 =>
        LET sum == FromBcd(frame.x) + FromBcd(frame.y)
        IN  /\ cpu.regs.a = ToBcd(sum % 100)
            /\ cpu.regs.f.carry = (sum >= 100)
            /\ cpu.regs.f.zero = (cpu.regs.a = 0)

\* C33's case: 0x01 + 0x01, then DAA: no adjustment is due, and the code adds
\* 6 because the low nibble is not 0: A = 0x08 where 0x02 is the sum.
C33_Witness ==
    /\ frame.n = 2 /\ frame.x = 1 /\ frame.y = 1
    /\ cpu.regs.a = 8 /\ ~cpu.regs.f.carry

-----------------------------------------------------------------------------
(* The claims about cycles *)

\* The cycles the picture unit has been given since construction, read off
\* its mode, line and accumulator (update moves from the accumulator to the
\* mode and line what it takes away); right as long as LY is not stored to
\* and the first frame is not over.
GpuPos(g) ==
    (456 * g.line) + g.clock
    + (CASE g.mode = "ScanlineVRAM" -> 80 [] g.mode = "HBlank" -> 252 [] OTHER -> 0)

\* The cycles the timer has been given, read off DIV and its accumulator;
\* right as long as DIV is not stored to and has not wrapped.
TimerPos(t) == (256 * t.div) + t.div_counter

\* C34: after steps that returned Ok, the picture unit and the timer have been
\* given the same number of cycles, and the last step gave each of them the
\* cycles of its instruction plus those of the interrupt service it ran.
C34_LockStep ==
    (halted = "run" /\ Len(frame.trace) > 0) =>
        LET given == obs.clock1 + (IF obs.dispatched THEN obs.clock2 ELSE 0)
        IN  /\ GpuPos(bus.gpu) = TimerPos(bus.timer)
            /\ GpuPos(bus.gpu) = GpuPos(Last.gpu) + given
            /\ TimerPos(bus.timer) = TimerPos(Last.timer) + given

\* C34's case: the step of the NOP after EI ran the NOP (4 cycles) and served
\* the vertical blank interrupt (16 cycles): both units are 20 cycles on, in
\* the next mode of the picture unit.
C34_Witness ==
    /\ halted = "run" /\ Len(frame.trace) > 0
    /\ Last.inst.op = "NOP" /\ obs.dispatched
    /\ obs.clock1 = 4 /\ obs.clock2 = 16
    /\ GpuPos(bus.gpu) = GpuPos(Last.gpu) + 20
    /\ TimerPos(bus.timer) = TimerPos(Last.timer) + 20
    /\ cpu.pc = 64

\* The last step ran a conditional JP, JR, CALL or RET and returned Ok.
CondStep ==
    /\ halted = "run" /\ Len(frame.trace) > 0
    /\ Last.byte # 203
    /\ Last.inst.op \in {"JP", "JR", "CALL", "RET"}
    /\ Last.inst.cond # "Always"

\* What the taken path costs over the base cycles.
TakenExtra(op) == IF op \in {"JP", "JR"} THEN 4 ELSE 12

\* C35, the cycles: the path not taken costs the base cycles of
\* Instruction::clock and leaves SP alone; the taken path costs 4 more for JP
\* and JR, 12 more for CALL and RET.
C35_TakenCostsMore ==
    CondStep =>
        IF check_condition(Last.cpu, Last.inst.cond)
        THEN obs.clock1 = Instruction_clock(Last.inst) + TakenExtra(Last.inst.op)
        ELSE obs.clock1 = Instruction_clock(Last.inst) /\ cpu.sp = Last.cpu.sp

\* C35: the cycles, and the path not taken leaves PC at the next instruction
\* (the address of the branch plus its length).
C35_ConditionalBranches ==
    /\ C35_TakenCostsMore
    /\ (CondStep /\ ~check_condition(Last.cpu, Last.inst.cond))
         => cpu.pc = W16(Last.cpu.pc + Instruction_len(Last.inst))

\* C35's case: JP Z,0x0110 at 0x0104 with Z clear was not taken: 12 cycles, SP
\* as it was, and PC is 0x0108 where the next instruction is at 0x0107.
C35_Witness ==
    /\ CondStep /\ Last.inst.op = "JP" /\ Last.inst.cond = "Zero"
    /\ ~Last.cpu.regs.f.zero /\ Last.cpu.pc = 260
    /\ obs.clock1 = 12 /\ cpu.sp = 53248 /\ cpu.pc = 264

\* A taken conditional RET: RET C with C set costs 20 cycles, 12 more than the
\* base 8, and SP is two higher.
C35_WitnessTaken ==
    /\ CondStep /\ Last.inst.op = "RET" /\ Last.inst.cond = "Carry"
    /\ Last.cpu.regs.f.carry
    /\ obs.clock1 = 20 /\ cpu.sp = Last.cpu.sp + 2

\* C36: the cycles a step's instruction returned are a positive multiple of
\* 4, for every instruction of the primary table and after the CB prefix.
C36_CyclesMultipleOf4 ==
    (halted = "run" /\ Len(frame.trace) > 0) =>
        (obs.clock1 > 0 /\ obs.clock1 % 4 = 0)

\* C36's case: ADD A,B (0x80) has run as the first instruction: it returned 1
\* cycle and the picture unit and the timer are 1 cycle on.
C36_Witness ==
    /\ halted = "run" /\ Len(frame.trace) = 1
    /\ Last.byte = 128 /\ Last.inst.op = "ADD"
    /\ obs.clock1 = 1
    /\ bus.gpu.clock = 1 /\ bus.timer.div_counter = 1

-----------------------------------------------------------------------------
(* The claims about the background *)

\* The index into vram of the map entry of a cell when the virtual coordinates
\* wrap at 256: the selected 32 x 32 map, tile row ((row + SCY) mod 256) / 8,
\* tile column ((8 * col + SCX) mod 256) / 8.
WrappedEntry(g, row, col) ==
    (IF Bit(g.lcdc, 3) = 1 THEN 7168 ELSE 6144)
    + ((((row + g.scy) % 256) \div 8) * 32) + ((((8 * col) + g.scx) % 256) \div 8)

\* C37: a build of the background wraps the virtual coordinates modulo 256:
\* for every cell (row 0..143, column block 0..19) the map entry read is the
\* one at the wrapped tile row and tile column of the selected map, no access
\* falls outside vram, and every write stays inside the 160 x 144 buffers.
C37_BackgroundWraps ==
    (obs.op = "build" /\ Bit(bus.gpu.lcdc, 0) = 1) =>
        /\ ~obs.panic
        /\ DOMAIN obs.reads = (0..(HEIGHT - 1)) \X (0..((WIDTH \div 8) - 1))
        /\ \A c \in DOMAIN obs.reads :
              obs.reads[c] = WrappedEntry(bus.gpu, c[1], c[2])
        /\ \A c \in DOMAIN obs.lines :
              obs.lines[c] + 1 <= VRAM_END - VRAM_START
        /\ \A c \in DOMAIN obs.writes :
              obs.writes[c] + 8 <= WIDTH * HEIGHT

\* A build with SCX = 1 and SCY = 0: the first cell reads the second entry of
\* the map, where the wrapped column is still 0.
C37_Witness ==
    /\ obs.op = "build"
    /\ Bit(bus.gpu.lcdc, 0) = 1
    /\ bus.gpu.scx = 1
    /\ bus.gpu.scy = 0
    /\ ~obs.panic
    /\ obs.reads[<<0, 0>>] = WrappedEntry(bus.gpu, 0, 0) + 1

\* A build with the second map selected and SCY = 255: the index passes the
\* end of vram and the build panics.
C37_WitnessPanic ==
    /\ obs.op = "build"
    /\ Bit(bus.gpu.lcdc, 3) = 1
    /\ bus.gpu.scy = 255
    /\ obs.panic
    /\ halted = "panic"
-----------------------------------------------------------------------------
(* The claim about the cache of the objects *)

\* The record the four OAM bytes of object idx decode to.
Decoded(g, idx) ==
    WithField(WithField(WithField(WithField(Sprite_default,
        0, Get(g.oam, 4 * idx)),
        1, Get(g.oam, (4 * idx) + 1)),
        2, Get(g.oam, (4 * idx) + 2)),
        3, Get(g.oam, (4 * idx) + 3))

\* C38: in every reachable state, starting at reset, each of the 40 cached
\* records is the decoding of its four OAM bytes: y = OAM[4i] - 16,
\* x = OAM[4i+1] - 8, tile_idx = OAM[4i+2], and priority, flip_y, flip_x and
\* palette are bits 7, 6, 5 and 4 of OAM[4i+3].
C38_CacheIsDecodedOam ==
    \A idx \in 0..39 : Sprite_at(bus.gpu, idx) = Decoded(bus.gpu, idx)

\* The state at reset: the OAM holds zeros, which decode to y = -16 and
\* x = -8, and the records hold the default, y = 0 and x = 0.
C38_Witness ==
    /\ frame.n = 0
    /\ obs.op = ""
    /\ \A a \in 0..159 : Get(bus.gpu.oam, a) = 0
    /\ Decoded(bus.gpu, 0).y = -16
    /\ Decoded(bus.gpu, 0).x = -8
    /\ Sprite_at(bus.gpu, 0).y = 0
    /\ Sprite_at(bus.gpu, 0).x = 0

\* After a copy of a page to the OAM every record is the decoding of its
\* bytes.
C38_WitnessDma ==
    /\ obs.op = "store8" /\ obs.addr = IO_DMA /\ obs.ok
    /\ C38_CacheIsDecodedOam
    /\ Sprite_at(bus.gpu, 0).y = -16 + Get(bus.gpu.oam, 0)
    /\ Get(bus.gpu.oam, 0) = 16
-----------------------------------------------------------------------------
(* The claim about TMA *)

\* C39: TMA (0xFF06) is changed only by a store to 0xFF06: Timer::update, for
\* any cycle count and any TAC setting, leaves the value read at 0xFF06 as it
\* was, and so do the stores to 0xFF04, 0xFF05 and 0xFF07.
C39_TmaOnlyByStore ==
    /\ obs.op = "update" =>
          Timer_load(bus.timer, 65286) = Timer_load(obs.before, 65286)
    /\ (obs.op = "store" /\ obs.addr \in {65284, 65285, 65287}) =>
          Timer_load(bus.timer, 65286) = Timer_load(obs.before, 65286)

\* The stores alone leave TMA as it was.
C39_StoresKeepTma ==
    (obs.op = "store" /\ obs.addr \in {65284, 65285, 65287}) =>
        Timer_load(bus.timer, 65286) = Timer_load(obs.before, 65286)

\* The timer runs at the fastest scale with 66 in TMA, and an update of 16
\* cycles reaches the round value: 0xFF06 reads 67.
C39_Witness ==
    /\ obs.op = "update"
    /\ obs.clock = 16
    /\ obs.before.running
    /\ obs.before.roundvalue = 16
    /\ Timer_load(obs.before, 65286) = 66
    /\ Timer_load(bus.timer, 65286) = 67

\* A store to TAC with 66 in TMA: 0xFF06 still reads 66.
C39_WitnessStore ==
    /\ obs.op = "store"
    /\ obs.addr = 65287
    /\ Timer_load(obs.before, 65286) = 66
    /\ Timer_load(bus.timer, 65286) = 66
-----------------------------------------------------------------------------
(* The claim about the pending-interrupt register *)

\* C40: the register IF keeps its two supported bits: for every byte v, a
\* store of v to 0xFF0F and then a load of 0xFF0F answers v AND 0x05; the
\* VBlank latch is bit 0 of v and the Timer latch is bit 2 of v.
C40_IfRoundTrip ==
    obs.op = "load8" =>
        /\ obs.ok
        /\ obs.value = Bit(obs.stored, 0) + (4 * Bit(obs.stored, 2))
        /\ bus.gpu.is_interrupt = (Bit(obs.stored, 0) = 1)
        /\ bus.timer.is_interrupt = (Bit(obs.stored, 2) = 1)

\* The VBlank half: the latch of the picture unit is bit 0 of the byte.
C40_VBlankBit ==
    obs.op = "load8" =>
        /\ bus.gpu.is_interrupt = (Bit(obs.stored, 0) = 1)
        /\ obs.value % 2 = Bit(obs.stored, 0)

\* 0x04 was stored, the Timer bit alone: the load answers 0.
C40_Witness ==
    /\ obs.op = "load8"
    /\ obs.stored = 4
    /\ obs.value = 0
    /\ ~bus.timer.is_interrupt

\* 0x10 was stored, the Joypad bit alone: the load answers 0x04.
C40_WitnessBit4 ==
    /\ obs.op = "load8"
    /\ obs.stored = 16
    /\ obs.value = 4
    /\ bus.timer.is_interrupt
====
